---------------------------- MODULE Spec2Model ----------------------------
(***************************************************************************)
(* Model of the quantumFPO dynamic portfolio optimizer:                    *)
(*   - the qubit index map, the QUBO builder, the Hamiltonian compiler,    *)
(*     the expectation evaluator and the solution decoder                  *)
(*     (enhanced_dynamic_portfolio_opt.py), as pure functions applied by   *)
(*     the actions of SpecPure;                                            *)
(*   - one run of dynamic_quantum_optimize with its DE+VQE loop (SpecRun); *)
(*   - the job store of dynamic_portfolio_api_clean.py (SpecJobs);         *)
(*   - the hybrid optimization requests of portfolio_api.py and the        *)
(*     simulator flag of hybrid_portfolio_opt.py (SpecHybrid).             *)
(*                                                                         *)
(* Numbers.  Python floats are modelled by exact integers or fractions:    *)
(*   max_investment_per_asset, previous_allocation   in percent (80 = 0.8) *)
(*   transaction_fee                                  in percent (1 = 0.01)*)
(*   QUBO coefficients      numerators over QuboDen(bit_resolution)        *)
(*   Hamiltonian inputs     multiples of 1e-10                             *)
(*   allocations, expectations   fractions [num, den]                      *)
(***************************************************************************)
EXTENDS Integers, Sequences, FiniteSets, TLC

\* ------------------------------------------------------------------ bounds
\* Largest number of qubits (assets * periods * bits) of a drawn problem.
MaxQubits == 8
\* Largest register of a drawn Hamiltonian.
MaxHamQubits == 2

\* Largest num_generations and population_size of a drawn run.
MaxGenerations == 2
MaxPopulation == 4
\* Cost-function invocations the optimizer may make beyond max_jobs.
ExtraEvals == 2
\* Longest drawn price history, in rows.
MaxDays == 4
\* Submissions the job store accepts, and the last second of the clock.
MaxSubmissions == 2
MaxSeconds == 1
\* Hybrid optimization requests served side by side.
MaxHybridRuns == 2
\* Largest num_time_steps and rebalance_frequency_days of a drawn split.
MaxTimeSteps == 4
MaxRebalanceDays == 3
\* Backends a manager has discovered when the best one is selected.
MaxBackends == 2

VARIABLES
    call,   \* the pure function last applied, with its arguments
    ret,    \* what it returned, as a record named after the result
    pc,             \* where the run of dynamic_quantum_optimize stands
    run,            \* config, shape and backend of the run
    selecting,      \* the backend request the run has to resolve
    job_count,      \* cost_function's nonlocal counter
    sampling_calls, \* sampler.run calls made so far in the run
    timed_out,      \* time.time() - start_time > optimization_timeout
    last_cost,      \* what the latest cost_function invocation returned
    last_outcome,   \* how the latest sampling went ("in_flight": its job is out)
    best_cost,      \* the lowest cost the optimizer has seen (result.fun)
    result,         \* what dynamic_quantum_optimize returned or raised
    active_jobs,    \* the job store: job id -> job record
    tasks,          \* the executions of run_optimization_sync under way
    clock,          \* datetime.now(), in whole seconds
    submissions,    \* submissions accepted so far
    response,       \* status code of the latest HTTP response
    qc_simulator_mode,  \* hybrid_portfolio_opt's module-level flag
    hybrid              \* the hybrid optimization runs, in order of arrival

pureVars == <<call, ret>>
runVars == <<pc, run, selecting, job_count, sampling_calls, timed_out, last_cost, last_outcome, best_cost, result>>
jobVars == <<active_jobs, tasks, clock, submissions, response>>
hybridVars == <<qc_simulator_mode, hybrid>>
vars == <<call, ret, pc, run, selecting, job_count, sampling_calls, timed_out, last_cost, last_outcome, best_cost, result, active_jobs, tasks, clock, submissions, response, qc_simulator_mode, hybrid>>

NoCall == [fn |-> "none"]
NoResult == [none |-> TRUE]
None == "None"

\* ------------------------------------------------------------- fractions
Frac(n, d) == [num |-> n, den |-> d]
\* a <= b for fractions with positive denominators
FracLeq(a, b) == a.num * b.den <= b.num * a.den
FracEq(a, b) == a.num * b.den = b.num * a.den

\* -------------------------------------------------------- configuration
\* DynamicOptimizationConfig with the dataclass defaults
\* (restriction_coefficient in units of 1e-4: 10000 is 1.0).
DefaultConfig ==
    [num_time_steps |-> 4,
     rebalance_frequency_days |-> 30,
     max_investment_per_asset |-> 80,
     bit_resolution |-> 2,
     risk_aversion |-> 1000,
     transaction_fee |-> 1,
     restriction_coefficient |-> 10000,
     optimizer_type |-> "differential_evolution",
     num_generations |-> 20,
     population_size |-> 40,
     test_mode |-> FALSE]

\* The largest bit_resolution a request may carry (Field(2, ge=1, le=4)).
MaxBitResolution == 4

\* Problem shapes (assets, periods, bits) that fit in MaxQubits qubits.
Shapes ==
    {s \in (1..MaxQubits) \X (1..MaxQubits) \X (1..MaxBitResolution) :
        s[1] * s[2] * s[3] <= MaxQubits}

\* max_investment_per_asset values drawn, in percent: (0, 1].
InvestCaps == {25, 80, 100}

\* ------------------------------------------------------ qubit index map
calculate_total_qubits(num_assets, num_periods, config) ==
    num_assets * num_periods * config.bit_resolution

\* A plausible slip: the period stride forgotten.
GetQubitIndexNoStride(asset_idx, period_idx, bit_idx, config, num_periods) ==
    asset_idx * (num_periods * config.bit_resolution) + period_idx + bit_idx

GetQubitIndex(asset_idx, period_idx, bit_idx, config, num_periods) ==
    LET qubits_per_period == config.bit_resolution
        qubits_per_asset == num_periods * qubits_per_period
    IN  asset_idx * qubits_per_asset + period_idx * qubits_per_period + bit_idx

\* ------------------------------------------------------ solution decoder
\* int(c) of one character of a bitstring
BitOf(c) == IF c = "1" THEN 1 ELSE 0

\* A plausible slip: positions past the end of the bitstring read as '1'.
AssetBitsPadOne(bitstring, config, asset_idx, period_idx, num_periods) ==
    [bit_idx \in 0..(config.bit_resolution - 1) |->
        LET qubit_idx == GetQubitIndex(asset_idx, period_idx, bit_idx, config, num_periods)
        IN  IF qubit_idx < Len(bitstring) THEN bitstring[qubit_idx + 1] ELSE "1"]

\* asset_bits of one (asset, period): the characters at its qubit indices,
\* '0' where the bitstring is too short (Python indexes from 0, TLA+ from 1).
AssetBits(bitstring, config, asset_idx, period_idx, num_periods) ==
    [bit_idx \in 0..(config.bit_resolution - 1) |->
        LET qubit_idx == GetQubitIndex(asset_idx, period_idx, bit_idx, config, num_periods)
        IN  IF qubit_idx < Len(bitstring) THEN bitstring[qubit_idx + 1] ELSE "0"]

\* int(''.join(reversed(asset_bits)), 2): asset_bits[0] is the least significant.
RECURSIVE BitValueFrom(_, _, _)
BitValueFrom(asset_bits, k, n) ==
    IF k >= n THEN 0
    ELSE BitOf(asset_bits[k]) * (2 ^ k) + BitValueFrom(asset_bits, k + 1, n)

\* A plausible slip: the bits joined without reversed(), asset_bits[0] the
\* most significant.
BitValueMsbFirst(asset_bits, config) ==
    LET n == config.bit_resolution
    IN  BitValueFrom([k \in 0..(n - 1) |-> asset_bits[n - 1 - k]], 0, n)

BitValue(asset_bits, config) == BitValueFrom(asset_bits, 0, config.bit_resolution)

\* A plausible slip: 2 ** (bit_resolution - 1) for (2 ** bit_resolution) - 1.
MaxValuePrecedence(config) == 2 ^ (config.bit_resolution - 1)

MaxValue(config) == (2 ^ config.bit_resolution) - 1

\* allocation = bit_value / max_value * max_investment_per_asset
Allocation(bit_value, config) ==
    Frac(bit_value * config.max_investment_per_asset, MaxValue(config) * 100)

\* allocations[period][asset]; period k stands for the key "time_step_k",
\* asset k for "asset_k".
decode_quantum_solution(bitstring, config, num_assets, num_periods) ==
    [period_idx \in 0..(num_periods - 1) |->
        [asset_idx \in 0..(num_assets - 1) |->
            Allocation(BitValue(AssetBits(bitstring, config, asset_idx,
                                          period_idx, num_periods), config),
                       config)]]

\* ------------------------------------------------------- drawn bitstrings
RECURSIVE BitstringsOfLen(_)
BitstringsOfLen(n) ==
    IF n = 0 THEN {<<>>}
    ELSE {Append(s, c) : s \in BitstringsOfLen(n - 1), c \in {"0", "1"}}

\* Every bitstring up to one character longer than the largest register.
Bitstrings == UNION {BitstringsOfLen(n) : n \in 0..(MaxQubits + 1)}

\* -------------------------------------------------- Hamiltonian compiler
\* The 1e-10 cut-off below which a coefficient is dropped; the linear and
\* quadratic inputs of the compiler are multiples of 1e-10.
HamThreshold == 1

Abs(x) == IF x < 0 THEN -x ELSE x

\* The Pauli label of num_qubits characters with 'Z' at the positions of zs.
PauliLabel(zs, num_qubits) ==
    [k \in 1..num_qubits |-> IF (k - 1) \in zs THEN "Z" ELSE "I"]

\* for i in range(num_qubits): one Z term per linear entry above the cut-off
RECURSIVE LinearTerms(_, _, _)
LinearTerms(linear, i, num_qubits) ==
    IF i >= num_qubits THEN <<>>
    ELSE (IF Abs(linear[i]) > HamThreshold
          THEN <<[label |-> PauliLabel({i}, num_qubits), coeff |-> linear[i]]>>
          ELSE <<>>)
         \o LinearTerms(linear, i + 1, num_qubits)

\* for i in range(num_qubits): for j in range(i+1, num_qubits): one ZZ term
\* per upper-triangular entry above the cut-off
RECURSIVE QuadraticTerms(_, _, _, _)
QuadraticTerms(quadratic, i, j, num_qubits) ==
    IF i >= num_qubits THEN <<>>
    ELSE IF j >= num_qubits THEN QuadraticTerms(quadratic, i + 1, i + 2, num_qubits)
    ELSE (IF Abs(quadratic[i][j]) > HamThreshold
          THEN <<[label |-> PauliLabel({i, j}, num_qubits), coeff |-> quadratic[i][j]]>>
          ELSE <<>>)
         \o QuadraticTerms(quadratic, i, j + 1, num_qubits)

\* A plausible slip: no identity term substituted for an empty term list.
BuildHamiltonianNoFallback(linear, quadratic, num_qubits) ==
    LinearTerms(linear, 0, num_qubits) \o QuadraticTerms(quadratic, 0, 1, num_qubits)

\* The (label, coefficient) list handed to SparsePauliOp.from_list.
build_hamiltonian_from_qubo(linear, quadratic, num_qubits) ==
    LET pauli_terms == LinearTerms(linear, 0, num_qubits)
                         \o QuadraticTerms(quadratic, 0, 1, num_qubits)
    IN  IF pauli_terms = <<>>
        THEN <<[label |-> PauliLabel({}, num_qubits), coeff |-> 0]>>
        ELSE pauli_terms

\* ------------------------------------------------- expectation evaluator
\* z_values: +1 for '0', -1 for '1'
ZValue(bit) == 1 - 2 * BitOf(bit)

\* A plausible slip: the eigenvalues swapped.
TermValueSwapped(term, bitstring, qubit_idx) ==
    LET RECURSIVE go(_)
        go(k) == IF k > Len(term.label) THEN 1
                 ELSE (IF term.label[k] = "Z" THEN 2 * BitOf(bitstring[k]) - 1 ELSE 1)
                      * go(k + 1)
    IN  term.coeff * go(qubit_idx + 1)

\* term_value: the coefficient times z_values at every 'Z' of the label,
\* from position qubit_idx on.
TermValue(term, bitstring, qubit_idx) ==
    LET RECURSIVE go(_)
        go(k) == IF k > Len(term.label) THEN 1
                 ELSE (IF term.label[k] = "Z" THEN ZValue(bitstring[k]) ELSE 1)
                      * go(k + 1)
    IN  term.coeff * go(qubit_idx + 1)

\* energy of one bitstring: the sum of its term values
RECURSIVE Energy(_, _, _)
Energy(hamiltonian, bitstring, t) ==
    IF t > Len(hamiltonian) THEN 0
    ELSE TermValue(hamiltonian[t], bitstring, 0) + Energy(hamiltonian, bitstring, t + 1)

RECURSIVE SumCounts(_, _)
SumCounts(counts, keys) ==
    IF keys = {} THEN 0
    ELSE LET b == CHOOSE x \in keys : TRUE
         IN  counts[b] + SumCounts(counts, keys \ {b})

\* sum of count * energy over the measured bitstrings
RECURSIVE WeightedEnergy(_, _, _)
WeightedEnergy(counts, hamiltonian, keys) ==
    IF keys = {} THEN 0
    ELSE LET b == CHOOSE x \in keys : TRUE
         IN  counts[b] * Energy(hamiltonian, b, 1)
               + WeightedEnergy(counts, hamiltonian, keys \ {b})

\* A plausible slip: the counts not normalised by the number of shots.
ExpectationUnnormalised(counts, hamiltonian) ==
    Frac(WeightedEnergy(counts, hamiltonian, DOMAIN counts), 1)

\* expectation = sum of (count / total_shots) * energy; 0.0 for no counts.
compute_expectation_from_counts(counts, hamiltonian) ==
    LET total_shots == SumCounts(counts, DOMAIN counts)
    IN  IF DOMAIN counts = {} THEN Frac(0, 1)
        ELSE Frac(WeightedEnergy(counts, hamiltonian, DOMAIN counts), total_shots)

\* ------------------------------------------- drawn Hamiltonian inputs
\* Coefficients in multiples of 1e-10: 0, at the cut-off, and above it.
HamValues == {-2, -1, 0, 1, 3}
EnergyValues == {-2, 0, 3}
CountValues == {1, 100}

Qubits(n) == 0..(n - 1)
UpperPairs(n) == {pr \in Qubits(n) \X Qubits(n) : pr[1] < pr[2]}

\* A matrix with the drawn upper triangle; the rest mirrors it (diagonal 0),
\* or, with junk, holds an entry above the cut-off everywhere else.
MatrixOf(upper, n, junk) ==
    [i \in Qubits(n) |-> [j \in Qubits(n) |->
        IF i < j THEN upper[<<i, j>>]
        ELSE IF junk THEN 3
        ELSE IF i = j THEN 0
        ELSE upper[<<j, i>>]]]

\* Measurement counts over at most two distinct bitstrings of n qubits.
CountsOver(n) ==
    UNION {[keys -> CountValues] :
             keys \in {k \in SUBSET BitstringsOfLen(n) : Cardinality(k) <= 2}}

\* ---------------------------------------------------------- QUBO builder
\* Units.  Expected returns mu and covariances S are integers in units of
\* 1e-4, transaction_fee * previous_allocation is percent * percent = 1e-4,
\* and restriction_coefficient is in 1e-4.  A bit's allocation weight is
\* 2^bit / MaxValue(config), so every coefficient is held as its numerator
\* over the common denominator QuboDen(config) = 2 * MaxValue(config)^2.
QuboDen(config) == 2 * MaxValue(config) * MaxValue(config)

\* bit_weight = 2 ** bit_idx (the numerator of the allocation weight)
BitWeight(bit_idx) == 2 ^ bit_idx

\* The coefficient arrays being accumulated; raised names the exception
\* that ended the construction, if any.
ZeroQubo(total_qubits) ==
    [linear |-> [x \in Qubits(total_qubits) |-> 0],
     quadratic |-> [x \in Qubits(total_qubits) |-> [y \in Qubits(total_qubits) |-> 0]],
     raised |-> None]

\* linear[x] += v: an index past the end of the array raises IndexError
AddLinear(acc, x, v) ==
    IF x \notin DOMAIN acc.linear THEN [acc EXCEPT !.raised = "IndexError"]
    ELSE [acc EXCEPT !.linear[x] = @ + v]

\* quadratic[x, y] += v
AddQuadratic(acc, x, y, v) ==
    IF x \notin DOMAIN acc.quadratic \/ y \notin DOMAIN acc.quadratic
    THEN [acc EXCEPT !.raised = "IndexError"]
    ELSE [acc EXCEPT !.quadratic[x][y] = @ + v]

\* periods_data[0].shape[1] and len(periods_data)
NumAssets(periods_data) == periods_data[1].ncols
NumPeriods(periods_data) == Len(periods_data)

\* linear[qubit_idx] -= mu.iloc[asset_idx] * allocation_weight
ReturnStep(acc, period_idx, asset_idx, bit_idx, periods_data, config) ==
    LET period == periods_data[period_idx + 1]
        qubit_idx == GetQubitIndex(asset_idx, period_idx, bit_idx, config,
                                   NumPeriods(periods_data))
    IN  IF asset_idx >= period.ncols THEN [acc EXCEPT !.raised = "IndexError"]
        ELSE AddLinear(acc, qubit_idx,
                       0 - period.mu[asset_idx] * BitWeight(bit_idx) * 2 * MaxValue(config))

\* The n-th iteration of: for period: for asset: for bit
RECURSIVE ReturnLoop(_, _, _, _)
ReturnLoop(acc, n, periods_data, config) ==
    LET A == NumAssets(periods_data)
        B == config.bit_resolution
    IN  IF n >= NumPeriods(periods_data) * A * B \/ acc.raised # None THEN acc
        ELSE ReturnLoop(ReturnStep(acc, n \div (A * B), (n \div B) % A, n % B,
                                   periods_data, config),
                        n + 1, periods_data, config)

add_return_objective(acc, periods_data, config) ==
    ReturnLoop(acc, 0, periods_data, config)

\* A plausible slip: weight_i used twice.
RiskCoeffWeightTypo(period, i, j, bit_i, bit_j, config) ==
    config.risk_aversion * period.S[i][j] * BitWeight(bit_i) * BitWeight(bit_i)

\* risk_coeff = risk_aversion * S.iloc[i, j] * weight_i * weight_j,
\* as its numerator over MaxValue(config)^2
RiskCoeff(period, i, j, bit_i, bit_j, config) ==
    config.risk_aversion * period.S[i][j] * BitWeight(bit_i) * BitWeight(bit_j)

\* One iteration of the risk loops: skipped when a qubit index is past the
\* arrays or an asset index past the covariance matrix; otherwise the
\* coefficient goes to linear (same qubit) or, halved, to quadratic.
RiskStep(acc, period_idx, i, j, bit_i, bit_j, periods_data, config) ==
    LET period == periods_data[period_idx + 1]
        qubit_i == GetQubitIndex(i, period_idx, bit_i, config, NumPeriods(periods_data))
        qubit_j == GetQubitIndex(j, period_idx, bit_j, config, NumPeriods(periods_data))
        len == Cardinality(DOMAIN acc.linear)
    IN  IF qubit_i >= len \/ qubit_j >= len THEN acc
        ELSE IF i >= period.ncols \/ j >= period.ncols THEN acc
        ELSE IF i = j /\ bit_i = bit_j
             THEN AddLinear(acc, qubit_i, 2 * RiskCoeff(period, i, j, bit_i, bit_j, config))
             ELSE AddQuadratic(acc, qubit_i, qubit_j,
                               RiskCoeff(period, i, j, bit_i, bit_j, config))

\* The n-th iteration of: for period: for i: for j: for bit_i: for bit_j
RECURSIVE RiskLoop(_, _, _, _)
RiskLoop(acc, n, periods_data, config) ==
    LET A == NumAssets(periods_data)
        B == config.bit_resolution
    IN  IF n >= NumPeriods(periods_data) * A * A * B * B \/ acc.raised # None THEN acc
        ELSE RiskLoop(RiskStep(acc, n \div (A * A * B * B), (n \div (A * B * B)) % A,
                               (n \div (B * B)) % A, (n \div B) % B, n % B,
                               periods_data, config),
                      n + 1, periods_data, config)

add_risk_objective(acc, periods_data, config) ==
    RiskLoop(acc, 0, periods_data, config)

\* A plausible slip: range(num_periods) for range(1, num_periods).
TransactionPeriodsFromZero(num_periods) == 0..(num_periods - 1)

\* for period_idx in range(1, num_periods)
TransactionPeriods(num_periods) == 1..(num_periods - 1)

\* linear[qubit] += transaction_fee * prev_allocation, for one bit
TransactionStep(acc, period_idx, asset_idx, bit_idx, config, num_periods, prev) ==
    AddLinear(acc, GetQubitIndex(asset_idx, period_idx, bit_idx, config, num_periods),
              config.transaction_fee * prev.values[asset_idx + 1] * QuboDen(config))

\* The n-th iteration of: for period in 1..: for asset in range(len(prev)): for bit
RECURSIVE TransactionLoop(_, _, _, _, _)
TransactionLoop(acc, n, config, num_periods, previous_allocation) ==
    LET A == Len(previous_allocation.values)
        B == config.bit_resolution
        period_idx == n \div (A * B)
    IN  IF n >= num_periods * A * B \/ acc.raised # None THEN acc
        ELSE TransactionLoop(
                 IF period_idx \in TransactionPeriods(num_periods)
                 THEN TransactionStep(acc, period_idx, (n \div B) % A, n % B, config,
                                      num_periods, previous_allocation)
                 ELSE acc,
                 n + 1, config, num_periods, previous_allocation)

add_transaction_cost_objective(acc, config, num_periods, previous_allocation) ==
    IF previous_allocation.is_none \/ num_periods <= 1 THEN acc
    ELSE IF Len(previous_allocation.values) = 0 THEN acc
    ELSE TransactionLoop(acc, 0, config, num_periods, previous_allocation)

\* A plausible slip: the second qubit taken from period 0.
PenaltyStepCrossPeriod(acc, period_idx, asset_i, asset_j, bit_i, bit_j, config, num_periods) ==
    LET qubit_i == GetQubitIndex(asset_i, period_idx, bit_i, config, num_periods)
        qubit_j == GetQubitIndex(asset_j, 0, bit_j, config, num_periods)
        penalty_strength == config.restriction_coefficient
    IN  IF asset_i = asset_j /\ bit_i = bit_j
        THEN AddLinear(acc, qubit_i,
                       2 * penalty_strength * BitWeight(bit_i)
                         * (BitWeight(bit_i) - 2 * MaxValue(config)))
        ELSE AddQuadratic(acc, qubit_i, qubit_j,
                          penalty_strength * BitWeight(bit_i) * BitWeight(bit_j))

\* One iteration of the budget-penalty loops:
\* penalty * weight_i * (weight_i - 2) to linear for the same qubit,
\* penalty * weight_i * weight_j / 2 to quadratic otherwise.
PenaltyStep(acc, period_idx, asset_i, asset_j, bit_i, bit_j, config, num_periods) ==
    LET qubit_i == GetQubitIndex(asset_i, period_idx, bit_i, config, num_periods)
        qubit_j == GetQubitIndex(asset_j, period_idx, bit_j, config, num_periods)
        penalty_strength == config.restriction_coefficient
    IN  IF asset_i = asset_j /\ bit_i = bit_j
        THEN AddLinear(acc, qubit_i,
                       2 * penalty_strength * BitWeight(bit_i)
                         * (BitWeight(bit_i) - 2 * MaxValue(config)))
        ELSE AddQuadratic(acc, qubit_i, qubit_j,
                          penalty_strength * BitWeight(bit_i) * BitWeight(bit_j))

RECURSIVE PenaltyLoop(_, _, _, _, _)
PenaltyLoop(acc, n, config, num_periods, num_assets) ==
    LET A == num_assets
        B == config.bit_resolution
    IN  IF n >= num_periods * A * A * B * B \/ acc.raised # None THEN acc
        ELSE PenaltyLoop(PenaltyStep(acc, n \div (A * A * B * B), (n \div (A * B * B)) % A,
                                     (n \div (B * B)) % A, (n \div B) % B, n % B,
                                     config, num_periods),
                         n + 1, config, num_periods, num_assets)

add_constraint_penalties(acc, config, num_periods, num_assets) ==
    PenaltyLoop(acc, 0, config, num_periods, num_assets)

\* The four contributions in turn; an exception in one ends the construction.
build_dynamic_qubo(periods_data, config, previous_allocation) ==
    LET num_assets == NumAssets(periods_data)
        num_periods == NumPeriods(periods_data)
        total_qubits == calculate_total_qubits(num_assets, num_periods, config)
        r1 == add_return_objective(ZeroQubo(total_qubits), periods_data, config)
        r2 == add_risk_objective(r1, periods_data, config)
        r3 == add_transaction_cost_objective(r2, config, num_periods, previous_allocation)
        r4 == add_constraint_penalties(r3, config, num_periods, num_assets)
    IN  [linear |-> r4.linear, quadratic |-> r4.quadratic,
         total_qubits |-> total_qubits, raised |-> r4.raised]

\* ------------------------------------------------- drawn builder inputs
\* What the return and covariance estimators give for one period: a vector
\* mu and a symmetric matrix S over the period's ncols assets.  Market k is
\* one such pair; the periods of a price history run through the markets
\* from `first` in steps of `step`.
Markets == 0..2

MarketOf(k, ncols) ==
    [ncols |-> ncols,
     mu |-> [a \in Qubits(ncols) |-> ((a + k) % 3) - 1],
     S |-> [i \in Qubits(ncols) |-> [j \in Qubits(ncols) |->
              IF i = j THEN 2 + k ELSE ((i + j + k) % 3) - 1]]]

PeriodsData(num_assets, num_periods, first, step) ==
    [t \in 1..num_periods |-> MarketOf((first + (t - 1) * step) % 3, num_assets)]

\* previous_allocation vectors, in percent, of a given length: nothing held,
\* 40% of each asset, and 60% of every other asset.
PrevOfLen(len) ==
    {[a \in 1..len |-> 0], [a \in 1..len |-> 40],
     [a \in 1..len |-> IF a % 2 = 1 THEN 60 ELSE 0],
     [a \in 1..len |-> IF a % 2 = 1 THEN 0 ELSE 60]}

\* Optional[np.ndarray]: None, or an array of values.
NoAllocation == [is_none |-> TRUE, values |-> <<>>]
SomeAllocation(values) == [is_none |-> FALSE, values |-> values]

\* None, or a vector with one entry per asset, one fewer, or one more.
PreviousAllocations(num_assets) ==
    {NoAllocation}
      \cup {SomeAllocation(v) :
              v \in UNION {PrevOfLen(len) : len \in (num_assets - 1)..(num_assets + 1)}}

FeeValues == {0, 1, 2}
RiskAversions == {0, 1000}
\* restriction_coefficient, in units of 1e-4: the default 1.0, and 0.0009.
RestrictionCoefficients == {9, 10000}

Min(a, b) == IF a <= b THEN a ELSE b
Max(a, b) == IF a >= b THEN a ELSE b

\* ------------------------------------------------ period windows of a run
\* A plausible slip: a window of exactly rebalance_frequency_days rows
\* dropped as well.
RECURSIVE PrepareFromStrict(_, _, _)
PrepareFromStrict(t, total_days, config) ==
    IF t >= config.num_time_steps THEN <<>>
    ELSE LET start_idx == t * config.rebalance_frequency_days
             end_idx == Min(start_idx + config.rebalance_frequency_days * 2, total_days)
         IN  IF end_idx - start_idx <= config.rebalance_frequency_days THEN <<>>
             ELSE <<[start_idx |-> start_idx, end_idx |-> end_idx]>>
                    \o PrepareFromStrict(t + 1, total_days, config)

\* The windows [start_idx, end_idx) from step t on; the first window shorter
\* than rebalance_frequency_days ends the loop.
RECURSIVE PrepareFrom(_, _, _)
PrepareFrom(t, total_days, config) ==
    IF t >= config.num_time_steps THEN <<>>
    ELSE LET start_idx == t * config.rebalance_frequency_days
             end_idx == Min(start_idx + config.rebalance_frequency_days * 2, total_days)
         IN  IF end_idx - start_idx < config.rebalance_frequency_days THEN <<>>
             ELSE <<[start_idx |-> start_idx, end_idx |-> end_idx]>>
                    \o PrepareFrom(t + 1, total_days, config)

prepare_multi_period_data(total_days, config) == PrepareFrom(0, total_days, config)

\* ------------------------------------------------------ backend scoring
\* quantum_backend_config.py.  Scores are kept in tenths, so that
\* avg_queue_time * 0.1 stays an integer:
\*   gate_error_rate in units of 1e-4, readout_error_rate in units of 1e-3,
\*   avg_queue_time in minutes, queue_length and num_qubits as they are.
BackendNames == <<"aer_simulator", "aer_simulator_noisy", "ibm_brisbane", "ibm_kyoto">>
BackendStatuses == {"AVAILABLE", "BUSY", "MAINTENANCE", "OFFLINE", "UNKNOWN"}
BackendTypes == {"SIMULATOR_LOCAL", "HARDWARE_IBM", "HARDWARE_OTHER"}

\* <<num_qubits, queue_length, gate_error_rate>> of the backends drawn.
BackendProfiles == {<<2, 0, 0>>, <<12, 0, 5>>, <<20, 2, 0>>}

\* QuantumBackendInfo, without its name.
BackendInfos ==
    {[backend_type |-> t, num_qubits |-> z[1], status |-> st, queue_length |-> z[2],
      avg_queue_time |-> 0, gate_error_rate |-> z[3], readout_error_rate |-> 0] :
        t \in BackendTypes, st \in BackendStatuses, z \in BackendProfiles}

\* available_backends, a dict in insertion order: entry i is named
\* BackendNames[i].
DiscoveredBackends ==
    UNION {[1..n -> BackendInfos] : n \in 0..Min(MaxBackends, Len(BackendNames))}

\* A plausible slip: the excess counted in full.
QubitBonusUncapped(qubit_excess) == IF qubit_excess >= 0 THEN qubit_excess ELSE 0

\* if qubit_excess >= 0: score += min(qubit_excess, 10)
QubitBonus(qubit_excess) == IF qubit_excess >= 0 THEN Min(qubit_excess, 10) ELSE 0

\* score_backend of select_best_backend, in tenths.
score_backend(info, num_qubits, prefer_hardware) ==
    (CASE info.status = "AVAILABLE" -> 1000
       [] info.status = "BUSY" -> 500
       [] OTHER -> 0)
    + (IF prefer_hardware /\ info.backend_type = "HARDWARE_IBM" THEN 500
       ELSE IF ~prefer_hardware /\ info.backend_type \in {"SIMULATOR_LOCAL", "SIMULATOR_CLOUD"}
       THEN 400 ELSE 0)
    - info.gate_error_rate
    - info.readout_error_rate
    - info.queue_length * 20
    - info.avg_queue_time
    + 10 * QubitBonus(info.num_qubits - num_qubits)

\* get_available_backends(min_qubits=...): the entries kept, by position.
get_available_backends(available_backends, min_qubits) ==
    {i \in DOMAIN available_backends :
        /\ ~(available_backends[i].num_qubits < min_qubits)
        /\ available_backends[i].status \in {"AVAILABLE", "BUSY"}}

\* max(available.keys(), key=...): the first entry with the highest score.
BestScored(available_backends, num_qubits, prefer_hardware) ==
    LET available == get_available_backends(available_backends, num_qubits)
        score(i) == score_backend(available_backends[i], num_qubits, prefer_hardware)
    IN  CHOOSE i \in available :
            /\ \A j \in available : score(j) <= score(i)
            /\ \A j \in available : score(j) = score(i) => i <= j

\* QuantumBackendManager.select_best_backend on a discovered set.
SelectBestBackend(available_backends, num_qubits, prefer_hardware) ==
    IF get_available_backends(available_backends, num_qubits) = {} THEN None
    ELSE BackendNames[BestScored(available_backends, num_qubits, prefer_hardware)]

\* ------------------------------------------------------------ pure calls
CallGetQubitIndex ==
    /\ UNCHANGED <<runVars, jobVars, hybridVars>>
    /\ call = NoCall
    /\ \E s \in Shapes :
      \E a \in 0..(s[1] - 1), p \in 0..(s[2] - 1), b \in 0..(s[3] - 1) :
        LET config == [DefaultConfig EXCEPT !.bit_resolution = s[3]]
        IN  /\ call' = [fn |-> "_get_qubit_index", asset_idx |-> a,
                        period_idx |-> p, bit_idx |-> b, config |-> config,
                        num_assets |-> s[1], num_periods |-> s[2]]
            /\ ret' = [qubit_idx |-> GetQubitIndex(a, p, b, config, s[2])]

CallDecode ==
    /\ UNCHANGED <<runVars, jobVars, hybridVars>>
    /\ call = NoCall
    /\ \E s \in Shapes, cap \in InvestCaps, bitstring \in Bitstrings :
        LET config == [DefaultConfig EXCEPT !.bit_resolution = s[3],
                                            !.max_investment_per_asset = cap]
        IN  /\ call' = [fn |-> "decode_quantum_solution", bitstring |-> bitstring,
                        config |-> config, num_assets |-> s[1], num_periods |-> s[2]]
            /\ ret' = [allocations |-> decode_quantum_solution(bitstring, config, s[1], s[2])]

CallBuildHamiltonian ==
    /\ UNCHANGED <<runVars, jobVars, hybridVars>>
    /\ call = NoCall
    /\ \E n \in 1..MaxHamQubits, junk \in BOOLEAN :
       \E linear \in [Qubits(n) -> HamValues], upper \in [UpperPairs(n) -> HamValues] :
        LET quadratic == MatrixOf(upper, n, junk)
        IN  /\ call' = [fn |-> "build_hamiltonian_from_qubo", linear |-> linear,
                        quadratic |-> quadratic, num_qubits |-> n]
            /\ ret' = [pauli_terms |-> build_hamiltonian_from_qubo(linear, quadratic, n)]

CallComputeExpectation ==
    /\ UNCHANGED <<runVars, jobVars, hybridVars>>
    /\ call = NoCall
    /\ \E n \in 1..MaxHamQubits :
       \E linear \in [Qubits(n) -> EnergyValues], upper \in [UpperPairs(n) -> EnergyValues],
          counts \in CountsOver(n) :
        LET hamiltonian == build_hamiltonian_from_qubo(linear, MatrixOf(upper, n, FALSE), n)
        IN  /\ call' = [fn |-> "compute_expectation_from_counts", counts |-> counts,
                        hamiltonian |-> hamiltonian, num_qubits |-> n]
            /\ ret' = [expectation |-> compute_expectation_from_counts(counts, hamiltonian)]

CallBuildQubo ==
    /\ UNCHANGED <<runVars, jobVars, hybridVars>>
    /\ call = NoCall
    /\ \E s \in Shapes, first \in Markets, step \in 0..1, fee \in FeeValues,
          ra \in RiskAversions :
       \E previous_allocation \in PreviousAllocations(s[1]) :
        LET config == [DefaultConfig EXCEPT !.bit_resolution = s[3],
                                            !.transaction_fee = fee,
                                            !.risk_aversion = ra]
            periods_data == PeriodsData(s[1], s[2], first, step)
        IN  /\ call' = [fn |-> "build_dynamic_qubo", periods_data |-> periods_data,
                        config |-> config, previous_allocation |-> previous_allocation]
            /\ ret' = build_dynamic_qubo(periods_data, config, previous_allocation)

CallSelectBestBackend ==
    /\ UNCHANGED <<runVars, jobVars, hybridVars>>
    /\ call = NoCall
    /\ \E available_backends \in DiscoveredBackends, num_qubits \in {3, 13},
          prefer_hardware \in BOOLEAN :
        /\ call' = [fn |-> "select_best_backend", available_backends |-> available_backends,
                    num_qubits |-> num_qubits, prefer_hardware |-> prefer_hardware]
        /\ ret' = [best_name |-> SelectBestBackend(available_backends, num_qubits, prefer_hardware)]

\* Coefficient arrays as an earlier contribution may have left them: all
\* zero (k = 0), or a pattern of nonzero entries.
StartQubo(total_qubits, k) ==
    [linear |-> [x \in Qubits(total_qubits) |-> k * (x + 1)],
     quadratic |-> [x \in Qubits(total_qubits) |-> [y \in Qubits(total_qubits) |-> k * (x + y)]],
     raised |-> None]

\* add_transaction_cost_objective applied to the arrays of a problem of
\* shape s.
CallAddTransactionCost ==
    /\ UNCHANGED <<runVars, jobVars, hybridVars>>
    /\ call = NoCall
    /\ \E s \in Shapes, k \in {0, 3}, fee \in FeeValues :
       \E previous_allocation \in PreviousAllocations(s[1]) :
        LET config == [DefaultConfig EXCEPT !.bit_resolution = s[3],
                                            !.transaction_fee = fee]
            acc == StartQubo(calculate_total_qubits(s[1], s[2], config), k)
        IN  /\ call' = [fn |-> "add_transaction_cost_objective", linear |-> acc.linear,
                        quadratic |-> acc.quadratic, config |-> config,
                        num_periods |-> s[2], previous_allocation |-> previous_allocation]
            /\ ret' = add_transaction_cost_objective(acc, config, s[2], previous_allocation)

\* add_constraint_penalties applied to zero arrays of a problem of shape s.
CallAddConstraintPenalties ==
    /\ UNCHANGED <<runVars, jobVars, hybridVars>>
    /\ call = NoCall
    /\ \E s \in Shapes, rho \in RestrictionCoefficients :
        LET config == [DefaultConfig EXCEPT !.bit_resolution = s[3],
                                            !.restriction_coefficient = rho]
            acc == ZeroQubo(calculate_total_qubits(s[1], s[2], config))
        IN  /\ call' = [fn |-> "add_constraint_penalties", config |-> config,
                        num_periods |-> s[2], num_assets |-> s[1]]
            /\ ret' = add_constraint_penalties(acc, config, s[2], s[1])

\* prepare_multi_period_data applied to a history of total_days rows.
CallPrepareMultiPeriodData ==
    /\ UNCHANGED <<runVars, jobVars, hybridVars>>
    /\ call = NoCall
    /\ \E total_days \in 0..(2 * MaxDays), T \in 1..MaxTimeSteps, R \in 1..MaxRebalanceDays :
        LET config == [DefaultConfig EXCEPT !.num_time_steps = T,
                                            !.rebalance_frequency_days = R]
        IN  /\ call' = [fn |-> "prepare_multi_period_data", total_days |-> total_days,
                        config |-> config]
            /\ ret' = [periods |-> prepare_multi_period_data(total_days, config)]

\* The caller takes the result; the next call starts afresh.
Return ==
    /\ UNCHANGED <<runVars, jobVars, hybridVars>>
    /\ call # NoCall
    /\ call' = NoCall
    /\ ret' = NoResult

\* No run of the optimizer is under way.
NoRun == [config |-> DefaultConfig, num_assets |-> 0, num_periods |-> 0, stages |-> <<>>, backend_name |-> None]
\* float('inf'), the energy of a candidate not yet evaluated.
Inf == Frac(1, 0)
\* No cost has been returned yet.
NoCost == Frac(0, 0)

\* No backend request is pending: nothing asked for, nothing discovered.
NoRequest ==
    [quantum_backend |-> None, discovered |-> {}, usable |-> {}, best |-> None,
     instance_ok |-> TRUE]

RunIdle ==
    /\ pc = "idle"
    /\ run = NoRun
    /\ selecting = NoRequest
    /\ job_count = 0
    /\ sampling_calls = 0
    /\ timed_out = FALSE
    /\ last_cost = NoCost
    /\ last_outcome = "none"
    /\ best_cost = Inf
    /\ result = NoResult

\* hybrid_portfolio_opt just imported: the flag is not assigned yet, and no
\* hybrid optimization has been requested.
Unset == [defined |-> FALSE, value |-> FALSE]
HybridIdle == qc_simulator_mode = Unset /\ hybrid = <<>>

\* The job store is empty and no request has been served.
JobsIdle ==
    /\ active_jobs = <<>>
    /\ tasks = {}
    /\ clock = 0
    /\ submissions = 0
    /\ response = 0

InitPure == call = NoCall /\ ret = NoResult /\ RunIdle /\ JobsIdle /\ HybridIdle

NextPure ==
    \/ CallGetQubitIndex
    \/ CallDecode
    \/ CallBuildHamiltonian
    \/ CallComputeExpectation
    \/ CallBuildQubo
    \/ CallSelectBestBackend
    \/ CallPrepareMultiPeriodData
    \/ CallAddTransactionCost
    \/ CallAddConstraintPenalties
    \/ Return

SpecPure == InitPure /\ [][NextPure]_vars

\* ------------------------------------------------------- fast test result
\* "10" * (total_qubits // 2)
MockBitstring(total_qubits) ==
    [k \in 1..(2 * (total_qubits \div 2)) |-> IF k % 2 = 1 THEN "1" ELSE "0"]

\* A plausible slip: np.ones(num_assets) without the division.
EqualWeightsUnnormalised(num_assets) ==
    [asset_idx \in 0..(num_assets - 1) |-> Frac(1, 1)]

\* np.ones(num_assets) / num_assets
EqualWeights(num_assets) ==
    [asset_idx \in 0..(num_assets - 1) |-> Frac(1, num_assets)]

create_fast_test_result(periods_data, total_qubits, config) ==
    LET num_assets == NumAssets(periods_data)
        num_periods == NumPeriods(periods_data)
    IN  [success |-> TRUE,
         allocations |-> [period_idx \in 0..(num_periods - 1) |->
                             EqualWeights(num_assets)],
         objective_value |-> Frac(-1, 2),
         quantum_jobs_executed |-> 1,
         solution_bitstring |-> MockBitstring(total_qubits),
         measurement_counts |-> (<<"1", "1">> :> 10) @@ (<<"0", "0">> :> 5),
         quantum_backend_used |-> "test_mode_simulator",
         configuration |-> config,
         total_qubits |-> total_qubits,
         quantum_cost |-> Frac(-1, 2),
         optimization_method |-> "fast_test_mode",
         test_mode |-> TRUE]

\* -------------------------------------------------------- backend choice
\* The backends a manager can discover, and the names a caller can ask for.
Backends == {"aer_simulator"}
RequestedBackends == {None, "aer_simulator", "ibm_unknown"}

\* available_backends.get(backend_name)
get_backend_info(backend_name, discovered) ==
    IF backend_name \in discovered THEN backend_name ELSE None

\* None when no discovered backend has enough qubits, else the best scored one.
select_best_backend(usable, best) == IF usable = {} THEN None ELSE best

\* backend_name as lines 511-520 choose it.
SelectBackendName(quantum_backend, discovered, usable, best) ==
    IF quantum_backend # None
    THEN IF get_backend_info(quantum_backend, discovered) = None
         THEN select_best_backend(usable, best)
         ELSE quantum_backend
    ELSE select_best_backend(usable, best)

\* ------------------------------------------------------ the two governors
\* The penalty value 1e6.
Sentinel == Frac(1000000, 1)
\* Expectation values a sampling job can give.
ExpectationValues == {Frac(-3, 2), Frac(2, 1)}

\* A plausible slip: the cap taken from four evaluations per candidate.
MaxJobsTimesFour(config) == Max(20, config.num_generations * config.population_size * 4)

\* max_jobs of cost_function
max_jobs(config) == Max(20, config.num_generations * config.population_size * 3)

\* A plausible slip: the callback's limit set above the cap.
MaxEvaluationsTimesFour(config) == Max(10, config.num_generations * config.population_size * 4)

\* max_evaluations, the limit the callback compares job_count with
max_evaluations(config) == Max(10, config.num_generations * config.population_size * 2)

\* What the circuit and the backend do once the try block is entered.
SamplingOutcomes == {"ok", "raises_before_run", "raises_in_run"}

\* No exception leaves the function.
NoException == "None"

\* A plausible slip: no except clause around the try block.
CostFunctionNoCatch(count, elapsed, config, outcome) ==
    IF elapsed \/ count > max_jobs(config)
    THEN [cost |-> Sentinel, outcome |-> "skipped", raised |-> NoException]
    ELSE IF outcome = "raises_before_run"
    THEN [cost |-> NoCost, outcome |-> outcome, raised |-> "Exception"]
    ELSE [cost |-> NoCost, outcome |-> "in_flight", raised |-> NoException]

\* A plausible slip: the clock is not looked at.
CostFunctionNoTimeout(count, elapsed, config, outcome) ==
    IF count > max_jobs(config)
    THEN [cost |-> Sentinel, outcome |-> "skipped", raised |-> NoException]
    ELSE IF outcome = "raises_before_run"
    THEN [cost |-> Sentinel, outcome |-> outcome, raised |-> NoException]
    ELSE [cost |-> NoCost, outcome |-> "in_flight", raised |-> NoException]

\* A plausible slip: the timeout reported as an error.
CostFunctionTimeoutRaises(count, elapsed, config, outcome) ==
    IF elapsed
    THEN [cost |-> NoCost, outcome |-> "skipped", raised |-> "TimeoutError"]
    ELSE IF count > max_jobs(config)
    THEN [cost |-> Sentinel, outcome |-> "skipped", raised |-> NoException]
    ELSE IF outcome = "raises_before_run"
    THEN [cost |-> Sentinel, outcome |-> outcome, raised |-> NoException]
    ELSE [cost |-> NoCost, outcome |-> "in_flight", raised |-> NoException]

\* One invocation from its first line to sampler.run: the two governors,
\* then the binding and the transpilation, then the job is out.  The
\* counter has been incremented already: `count` is its new value.
cost_function(count, elapsed, config, outcome) ==
    IF elapsed
    THEN [cost |-> Sentinel, outcome |-> "skipped", raised |-> NoException]
    ELSE IF count > max_jobs(config)
    THEN [cost |-> Sentinel, outcome |-> "skipped", raised |-> NoException]
    ELSE IF outcome = "raises_before_run"
    THEN [cost |-> Sentinel, outcome |-> outcome, raised |-> NoException]
    ELSE [cost |-> NoCost, outcome |-> "in_flight", raised |-> NoException]

\* The rest of the invocation: job.result(), the counts, the expectation;
\* whatever is raised there is caught as well.
job_result(outcome, expectation) ==
    IF outcome = "ok" THEN [cost |-> expectation, outcome |-> "ok"]
    ELSE [cost |-> Sentinel, outcome |-> "raises_in_run"]

\* callback=lambda x, convergence: job_count >= max_evaluations
callback(count, config) == count >= max_evaluations(config)

\* ---------------------------------------------------------- drawn runs
\* max_investment_per_asset of a run, in percent: below and above an equal
\* share of two or three assets.
RunCaps == {25, 80}

\* Configurations of a run: two windows of two days at most, one or two bits.
RunConfigs ==
    {[DefaultConfig EXCEPT !.num_time_steps = T, !.rebalance_frequency_days = 2,
                           !.max_investment_per_asset = cap,
                           !.bit_resolution = bits, !.num_generations = G,
                           !.population_size = MaxPopulation,
                           !.optimizer_type = opt, !.test_mode = tm] :
        T \in 1..2, cap \in RunCaps, bits \in 1..2, G \in {1, MaxGenerations},
        opt \in {"differential_evolution", "cobyla"}, tm \in BOOLEAN}

AssetCounts == {2, 3}

\* The registers a final sampling pass can report as most probable.
FinalBitstrings(total_qubits) ==
    {[k \in 1..total_qubits |-> "1"],
     [k \in 1..total_qubits |-> IF k % 2 = 1 THEN "1" ELSE "0"]}

\* final_counts of the final pass: one or two bitstrings, never a tie.
FinalCounts(total_qubits) ==
    {[b \in {top} |-> 3] : top \in FinalBitstrings(total_qubits)}
      \cup {[b \in FinalBitstrings(total_qubits) |-> IF b = top THEN 2 ELSE 1] :
              top \in FinalBitstrings(total_qubits)}

\* max(final_counts, key=final_counts.get)
MostProbable(final_counts) ==
    CHOOSE b \in DOMAIN final_counts :
        \A c \in DOMAIN final_counts : final_counts[c] <= final_counts[b]


\* previous_allocation of a run: None, or 40% of each of the assets.
RunAllocations(ncols) == {NoAllocation, SomeAllocation([a \in 1..ncols |-> 40])}

\* ------------------------------------------------------- the run, by step
\* An exception leaves dynamic_quantum_optimize.
Raises(exception) ==
    /\ pc' = "raised"
    /\ result' = [raised |-> exception]

\* The stages of dynamic_quantum_optimize before the optimizer, in the order
\* of the code; run.stages holds those a run went through.
Stages ==
    <<"prepare_multi_period_data", "build_dynamic_qubo",
      "build_hamiltonian_from_qubo", "create_optimized_ansatz">>

\* A plausible slip: the check skipped on the fast test path.
InsufficientDataUnlessTest(periods, config) == periods = <<>> /\ ~config.test_mode

\* if not periods_data
insufficient_data(periods, config) == periods = <<>>

\* dynamic_quantum_optimize up to the call of run_differential_evolution_vqe:
\* the windows, the QUBO, the fast test path, the optimizer type.  The
\* backend the caller names and what the backend manager will discover
\* (`usable`: enough qubits and available; `best`: the best scored of them;
\* `instance_ok`: get_backend_instance works) are fixed here.  A QUBO over
\* no period at all cannot be built: periods_data[0] raises IndexError.
Optimize ==
    /\ pc = "idle"
    /\ UNCHANGED <<pureVars, hybridVars, jobVars, job_count, sampling_calls, timed_out, last_cost, last_outcome, best_cost>>
    /\ \E total_days \in 0..MaxDays, ncols \in AssetCounts, config \in RunConfigs :
       \E previous_allocation \in RunAllocations(ncols),
          quantum_backend \in RequestedBackends, discovered \in SUBSET Backends,
          instance_ok \in BOOLEAN :
       \E usable \in SUBSET discovered :
       \E best \in (IF usable = {} THEN {None} ELSE usable) :
        LET windows == prepare_multi_period_data(total_days, config)
            periods_data == PeriodsData(ncols, Len(windows), 0, 1)
            qubo == IF periods_data = <<>>
                    THEN [total_qubits |-> 0, raised |-> "IndexError"]
                    ELSE build_dynamic_qubo(periods_data, config, previous_allocation)
            started == [config |-> config, num_assets |-> ncols,
                        num_periods |-> Len(windows), stages |-> <<>>,
                        backend_name |-> None]
            StoppedAfter(n) == [started EXCEPT !.stages = SubSeq(Stages, 1, n)]
        IN  IF insufficient_data(windows, config)
            THEN run' = StoppedAfter(1) /\ Raises("ValueError") /\ UNCHANGED selecting
            ELSE IF qubo.raised # None
            THEN run' = StoppedAfter(2) /\ Raises(qubo.raised) /\ UNCHANGED selecting
            ELSE IF config.test_mode
            THEN /\ run' = StoppedAfter(2)
                 /\ pc' = "returned"
                 /\ result' = create_fast_test_result(periods_data, qubo.total_qubits, config)
                 /\ UNCHANGED selecting
            ELSE IF config.optimizer_type # "differential_evolution"
            THEN run' = StoppedAfter(4) /\ Raises("NotImplementedError") /\ UNCHANGED selecting
            ELSE /\ run' = StoppedAfter(4)
                 /\ pc' = "select"
                 /\ result' = result
                 /\ selecting' = [quantum_backend |-> quantum_backend,
                                  discovered |-> discovered, usable |-> usable,
                                  best |-> best, instance_ok |-> instance_ok]

\* The prelude of run_differential_evolution_vqe: start_time, the choice of
\* the backend, its info, its instance.  With the backend chosen the request
\* is done with; a request that raised stays on record.
SelectBackend ==
    /\ pc = "select"
    /\ UNCHANGED <<pureVars, hybridVars, jobVars, job_count, sampling_calls, timed_out, last_cost, last_outcome, best_cost>>
    /\ LET backend_name == SelectBackendName(selecting.quantum_backend, selecting.discovered,
                                             selecting.usable, selecting.best)
       IN  IF get_backend_info(backend_name, selecting.discovered) = None
           THEN Raises("AttributeError") /\ UNCHANGED <<run, selecting>>
           ELSE IF ~selecting.instance_ok
           THEN Raises("RuntimeError") /\ UNCHANGED <<run, selecting>>
           ELSE /\ run' = [run EXCEPT !.backend_name = backend_name]
                /\ selecting' = NoRequest
                /\ pc' = "de"
                /\ result' = result

\* differential_evolution, in the search or while polishing, invokes
\* cost_function: up to the submission of the sampling job, or to the return
\* when the invocation ends before that.
CostFunction ==
    /\ pc \in {"de", "polish"}
    /\ last_outcome # "in_flight"
    /\ job_count < max_jobs(run.config) + ExtraEvals
    /\ UNCHANGED <<pureVars, hybridVars, jobVars, selecting, run, timed_out>>
    /\ job_count' = job_count + 1
    /\ \E outcome \in {"ok", "raises_before_run"} :
        LET r == cost_function(job_count + 1, timed_out, run.config, outcome)
        IN  IF r.raised # NoException
            THEN /\ Raises(r.raised)
                 /\ UNCHANGED <<sampling_calls, last_cost, last_outcome, best_cost>>
            ELSE /\ UNCHANGED <<pc, result>>
                 /\ last_cost' = r.cost
                 /\ last_outcome' = r.outcome
                 /\ sampling_calls' = sampling_calls + (IF r.outcome = "in_flight" THEN 1 ELSE 0)
                 /\ best_cost' = IF r.outcome = "in_flight" \/ FracLeq(best_cost, r.cost)
                                 THEN best_cost ELSE r.cost

\* The sampling job of the invocation under way ends, with counts or with
\* an exception, and cost_function returns.
JobReturns ==
    /\ pc \in {"de", "polish"}
    /\ last_outcome = "in_flight"
    /\ UNCHANGED <<pureVars, hybridVars, jobVars, selecting, pc, run, job_count, sampling_calls, timed_out, result>>
    /\ \E outcome \in {"ok", "raises_in_run"}, expectation \in ExpectationValues :
        LET r == job_result(outcome, expectation)
        IN  /\ last_cost' = r.cost
            /\ last_outcome' = r.outcome
            /\ best_cost' = IF FracLeq(best_cost, r.cost) THEN best_cost ELSE r.cost

\* The clock passes the timeout while the optimizer is at work.
TimeoutPasses ==
    /\ pc \in {"de", "polish"}
    /\ ~timed_out
    /\ timed_out' = TRUE
    /\ UNCHANGED <<pureVars, hybridVars, jobVars, selecting, pc, run, job_count, sampling_calls, last_cost, last_outcome, best_cost, result>>

\* differential_evolution calls the callback after a generation; True ends
\* the search.
Callback ==
    /\ pc = "de"
    /\ job_count >= 1
    /\ last_outcome # "in_flight"
    /\ pc' = IF callback(job_count, run.config) THEN "polish" ELSE "de"
    /\ UNCHANGED <<pureVars, hybridVars, jobVars, selecting, run, job_count, sampling_calls, timed_out, last_cost, last_outcome, best_cost, result>>

\* differential_evolution ends the search itself: converged, or maxiter.
SearchEnds ==
    /\ pc = "de"
    /\ job_count >= 1
    /\ last_outcome # "in_flight"
    /\ pc' = "polish"
    /\ UNCHANGED <<pureVars, hybridVars, jobVars, selecting, run, job_count, sampling_calls, timed_out, last_cost, last_outcome, best_cost, result>>

\* differential_evolution returns result.x and result.fun.
SearchReturns ==
    /\ pc = "polish"
    /\ last_outcome # "in_flight"
    /\ pc' = "final"
    /\ last_cost' = NoCost
    /\ last_outcome' = "none"
    /\ UNCHANGED <<pureVars, hybridVars, jobVars, selecting, run, job_count, sampling_calls, timed_out, best_cost, result>>

\* A plausible slip: the final pass wrapped in the same try/except.
FinalPassCaught(outcome) == NoException

\* The exception that leaves the final pass: nothing catches what the
\* binding, the transpilation, the job or its result raise.
final_pass(outcome) == IF outcome = "ok" THEN NoException ELSE "SamplingError"

\* The final sampling pass, the decoding and the result dictionary.
FinalSampling ==
    /\ pc = "final"
    /\ UNCHANGED <<pureVars, hybridVars, jobVars, selecting, run, job_count, timed_out, last_cost, best_cost>>
    /\ \E outcome \in SamplingOutcomes :
        LET total_qubits == calculate_total_qubits(run.num_assets, run.num_periods, run.config)
        IN  /\ last_outcome' = outcome
            /\ sampling_calls' = sampling_calls + (IF outcome = "raises_before_run" THEN 0 ELSE 1)
            /\ IF final_pass(outcome) = NoException
               THEN \E final_counts \in FinalCounts(total_qubits) :
                     LET best_bitstring == MostProbable(final_counts)
                     IN  /\ pc' = "returned"
                         /\ result' =
                              [allocations |-> decode_quantum_solution(best_bitstring,
                                    run.config, run.num_assets, run.num_periods),
                               objective_value |-> best_cost,
                               quantum_jobs_executed |-> job_count,
                               solution_bitstring |-> best_bitstring,
                               measurement_counts |-> final_counts,
                               quantum_backend_used |-> run.backend_name,
                               configuration |-> run.config]
               ELSE Raises(final_pass(outcome))

InitRun == call = NoCall /\ ret = NoResult /\ RunIdle /\ JobsIdle /\ HybridIdle

NextRun ==
    \/ Optimize
    \/ SelectBackend
    \/ CostFunction
    \/ JobReturns
    \/ TimeoutPasses
    \/ Callback
    \/ SearchEnds
    \/ SearchReturns
    \/ FinalSampling

SpecRun == InitRun /\ [][NextRun]_vars


\* ============================================================ job store
\* A datetime field that has not been written.
NotSet == -1

\* Requests: the body that decides hash(str(request.dict())), which includes
\* async_execution; a symbol starting with INVALID fails validation.
Requests ==
    {[assets |-> a, async_execution |-> e] : a \in {"AAPL,MSFT", "INVALID,MSFT"}, e \in BOOLEAN}

\* f"dpo_{timestamp}_{hash(str(request.dict()))}": the second and the request.
JobId(second, request) == <<second, request>>

JobIds == {JobId(second, request) : second \in 0..MaxSeconds, request \in Requests}

\* validate_asset_data raises for a symbol that starts with INVALID.
validate_asset_data(request) == request.assets # "INVALID,MSFT"

\* job_data as start_dynamic_optimization creates it.
NewJob(job_id, request, now) ==
    [job_id |-> job_id, status |-> "pending", request |-> request,
     created_at |-> now, progress |-> 0, started_at |-> NotSet,
     completed_at |-> NotSet, error_message |-> "", result |-> None]

\* run_optimization_sync up to its await: status and started_at.
MarkRunning(job) == [job EXCEPT !.status = "running", !.started_at = clock]

\* run_optimization_sync after the await, by what the optimization did.
MarkFinished(job, outcome) ==
    IF outcome = "result"
    THEN [job EXCEPT !.status = "completed", !.completed_at = clock,
                     !.result = "result", !.progress = 100]
    ELSE IF outcome = "timeout"
    THEN [job EXCEPT !.status = "failed", !.error_message = "Optimization timeout"]
    ELSE [job EXCEPT !.status = "failed", !.error_message = "exception",
                     !.completed_at = clock]

\* A plausible slip: cancellation accepted in every status.
CancellableAlways(status) == TRUE

\* cancel_optimization_job goes on unless the status is one of the three.
Cancellable(status) == status \notin {"completed", "failed", "cancelled"}

MarkCancelled(job) ==
    [job EXCEPT !.status = "cancelled", !.completed_at = clock,
                !.error_message = "Cancelled by user request"]

\* active_jobs[job_id] = job_data
Store(jobs, job_id, job) ==
    [j \in (DOMAIN jobs) \cup {job_id} |-> IF j = job_id THEN job ELSE jobs[j]]

\* POST /optimize.  An asynchronous request leaves a background task behind;
\* a synchronous one runs run_optimization_sync up to its await at once.
Submit ==
    /\ submissions < MaxSubmissions
    /\ UNCHANGED <<pureVars, hybridVars, runVars, clock>>
    /\ \E request \in Requests :
        LET job_id == JobId(clock, request)
            job == NewJob(job_id, request, submissions + 1)
        IN  IF ~validate_asset_data(request)
            THEN /\ response' = 400
                 /\ UNCHANGED <<active_jobs, tasks, submissions>>
            ELSE /\ submissions' = submissions + 1
                 /\ IF request.async_execution
                    THEN /\ active_jobs' = Store(active_jobs, job_id, job)
                         /\ tasks' = tasks \cup {[task |-> submissions + 1, job_id |-> job_id,
                                                  stage |-> "queued"]}
                         /\ response' = 200
                    ELSE /\ active_jobs' = Store(active_jobs, job_id, MarkRunning(job))
                         /\ tasks' = tasks \cup {[task |-> submissions + 1, job_id |-> job_id,
                                                  stage |-> "awaiting"]}
                         /\ response' = response

\* run_optimization_background starts: run_optimization_sync up to its await.
StartBackground ==
    /\ UNCHANGED <<pureVars, hybridVars, runVars, clock, submissions, response>>
    /\ \E t \in tasks :
        /\ t.stage = "queued"
        /\ active_jobs' = [active_jobs EXCEPT ![t.job_id] = MarkRunning(@)]
        /\ tasks' = (tasks \ {t}) \cup {[t EXCEPT !.stage = "awaiting"]}

\* The awaited optimization returns, times out or raises, and
\* run_optimization_sync writes the outcome to the record.
Finish ==
    /\ UNCHANGED <<pureVars, hybridVars, runVars, clock, submissions>>
    /\ \E t \in tasks, outcome \in {"result", "timeout", "exception"} :
        /\ t.stage = "awaiting"
        /\ active_jobs' = [active_jobs EXCEPT ![t.job_id] = MarkFinished(@, outcome)]
        /\ tasks' = tasks \ {t}
        /\ response' = IF active_jobs[t.job_id].request.async_execution THEN response
                       ELSE IF outcome = "result" THEN 200 ELSE 400

\* The handler of DELETE /job/{job_id} for one job id.
cancel_optimization_job(job_id) ==
    /\ UNCHANGED <<pureVars, hybridVars, runVars, tasks, clock, submissions>>
    /\ IF job_id \notin DOMAIN active_jobs
       THEN response' = 404 /\ UNCHANGED active_jobs
       ELSE IF ~Cancellable(active_jobs[job_id].status)
       THEN response' = 400 /\ UNCHANGED active_jobs
       ELSE /\ active_jobs' = [active_jobs EXCEPT ![job_id] = MarkCancelled(@)]
            /\ response' = 200

\* DELETE /job/{job_id}
Cancel == \E job_id \in JobIds : cancel_optimization_job(job_id)

\* A second passes.
Tick ==
    /\ clock < MaxSeconds
    /\ clock' = clock + 1
    /\ UNCHANGED <<pureVars, hybridVars, runVars, active_jobs, tasks, submissions, response>>

InitJobs == call = NoCall /\ ret = NoResult /\ RunIdle /\ JobsIdle /\ HybridIdle

NextJobs ==
    \/ Submit
    \/ StartBackground
    \/ Finish
    \/ Cancel
    \/ Tick

SpecJobs == InitJobs /\ [][NextJobs]_vars

\* ====================================================== hybrid optimization
\* portfolio_api.py serves POST /api/optimize/hybrid in the handler itself
\* (optimize_hybrid, a coroutine with no await in its body: the event loop
\* runs one such handler at a time) and POST /api/optimize/hybrid/async by a
\* background task (run_hybrid_optimization, a plain function, which the
\* framework runs on a worker thread).  Both assign the module-level flag
\* hybrid_portfolio_opt.qc_simulator_mode and then call quantum_optimize,
\* which reads it.

\* A run just requested: nothing done yet, no backend used.
NewHybridRun(kind, qc_simulator) == [kind |-> kind, qc_simulator |-> qc_simulator, at |-> "received", used |-> "none"]

\* hybrid_portfolio_opt.qc_simulator_mode = request.qc_simulator
SetSimulatorMode(qc_simulator) == [defined |-> TRUE, value |-> qc_simulator]

\* quantum_optimize: the branch taken on the module-level flag, read when
\* the circuit has been built.  The request is not among its parameters.
quantum_optimize(mode) ==
    IF ~mode.defined THEN "NameError"
    ELSE IF mode.value THEN "run_simulator" ELSE "run_real_backend"

\* The handler of a synchronous request is between its first line and its
\* return.
InHandler(r) == r.kind = "sync" /\ r.at \in {"classical_done", "mode_set"}

\* A request arrives: the synchronous handler is entered, or the background
\* task is queued.
HybridRequest ==
    /\ Len(hybrid) < MaxHybridRuns
    /\ \E kind \in {"sync", "background"}, qc_simulator \in BOOLEAN :
         hybrid' = Append(hybrid, NewHybridRun(kind, qc_simulator))
    /\ UNCHANGED <<pureVars, runVars, jobVars, qc_simulator_mode>>

\* classical_optimize(prices): first in the handler, after the assignment
\* in the background task.
ClassicalOptimize ==
    /\ \E i \in DOMAIN hybrid :
         /\ \/ /\ hybrid[i].kind = "sync"
               /\ hybrid[i].at = "received"
               /\ \A j \in DOMAIN hybrid : ~InHandler(hybrid[j])
            \/ /\ hybrid[i].kind = "background"
               /\ hybrid[i].at = "mode_set"
         /\ hybrid' = [hybrid EXCEPT ![i].at = "classical_done"]
    /\ UNCHANGED <<pureVars, runVars, jobVars, qc_simulator_mode>>

\* The assignment of the flag: first in the background task, after the
\* classical optimization in the handler.
SetMode ==
    /\ \E i \in DOMAIN hybrid :
         /\ \/ hybrid[i].kind = "sync" /\ hybrid[i].at = "classical_done"
            \/ hybrid[i].kind = "background" /\ hybrid[i].at = "received"
         /\ qc_simulator_mode' = SetSimulatorMode(hybrid[i].qc_simulator)
         /\ hybrid' = [hybrid EXCEPT ![i].at = "mode_set"]
    /\ UNCHANGED <<pureVars, runVars, jobVars>>

\* quantum_optimize(prices) reaches its branch and runs on one backend.
QuantumOptimize ==
    /\ \E i \in DOMAIN hybrid :
         /\ \/ hybrid[i].kind = "sync" /\ hybrid[i].at = "mode_set"
            \/ hybrid[i].kind = "background" /\ hybrid[i].at = "classical_done"
         /\ hybrid' = [hybrid EXCEPT ![i].at = "done",
                                     ![i].used = quantum_optimize(qc_simulator_mode)]
    /\ UNCHANGED <<pureVars, runVars, jobVars, qc_simulator_mode>>

InitHybrid == call = NoCall /\ ret = NoResult /\ RunIdle /\ JobsIdle /\ HybridIdle

NextHybrid ==
    \/ HybridRequest
    \/ ClassicalOptimize
    \/ SetMode
    \/ QuantumOptimize

SpecHybrid == InitHybrid /\ [][NextHybrid]_vars

\* =================================================================== claims

IsCall(fn) == call.fn = fn

\* The triple a flat index stands for: the inverse the decoder relies on.
IndexToTriple(idx, config, num_periods) ==
    <<idx \div (num_periods * config.bit_resolution),
      (idx % (num_periods * config.bit_resolution)) \div config.bit_resolution,
      idx % config.bit_resolution>>

ValidTriples(num_assets, num_periods, config) ==
    (0..(num_assets - 1)) \X (0..(num_periods - 1)) \X (0..(config.bit_resolution - 1))

\* C1: the index of every valid (asset, period, bit) lies in
\* [0, num_assets * num_periods * bit_resolution), inverts to the same triple,
\* and no other valid triple has the same index.
C1_IndexBijection ==
    IsCall("_get_qubit_index") =>
        /\ ret.qubit_idx \in 0..(calculate_total_qubits(call.num_assets, call.num_periods, call.config) - 1)
        /\ IndexToTriple(ret.qubit_idx, call.config, call.num_periods)
             = <<call.asset_idx, call.period_idx, call.bit_idx>>
        /\ \A t \in ValidTriples(call.num_assets, call.num_periods, call.config) :
             GetQubitIndex(t[1], t[2], t[3], call.config, call.num_periods) = ret.qubit_idx
                => t = <<call.asset_idx, call.period_idx, call.bit_idx>>

\* An index computed for a triple whose three components are all nonzero.
C1_Witness ==
    /\ IsCall("_get_qubit_index")
    /\ call.asset_idx > 0 /\ call.period_idx > 0 /\ call.bit_idx > 0
    /\ ret.qubit_idx = calculate_total_qubits(call.num_assets, call.num_periods, call.config) - 1

InvestCap(config) == Frac(config.max_investment_per_asset, 100)

\* C4: every allocation decoded from any bitstring, short ones included,
\* lies in [0, max_investment_per_asset].
C4_DecoderRange ==
    IsCall("decode_quantum_solution") =>
        \A p \in DOMAIN ret.allocations : \A a \in DOMAIN ret.allocations[p] :
            /\ ret.allocations[p][a].den > 0
            /\ FracLeq(Frac(0, 1), ret.allocations[p][a])
            /\ FracLeq(ret.allocations[p][a], InvestCap(call.config))

\* A bitstring shorter than the register decoded with two bits per asset:
\* one asset at the cap, another strictly between 0 and the cap.
C4_Witness ==
    /\ IsCall("decode_quantum_solution")
    /\ call.config.bit_resolution = 2
    /\ Len(call.bitstring)
         < calculate_total_qubits(call.num_assets, call.num_periods, call.config)
    /\ \E p \in DOMAIN ret.allocations : \E a, b \in DOMAIN ret.allocations[p] :
         /\ FracEq(ret.allocations[p][a], InvestCap(call.config))
         /\ ret.allocations[p][b].num > 0
         /\ ~FracEq(ret.allocations[p][b], InvestCap(call.config))

\* The bitstring has a '1' at the qubit of (asset, period, bit 0).
BitIsOne(bitstring, asset_idx, period_idx, config, num_periods) ==
    LET qubit_idx == GetQubitIndex(asset_idx, period_idx, 0, config, num_periods)
    IN  qubit_idx < Len(bitstring) /\ bitstring[qubit_idx + 1] = "1"

\* C5: with bit_resolution = 1 every decoded allocation is 0 or the cap, and
\* it is the cap exactly when the bit of that (asset, period) is '1'.
C5_BinaryAllocation ==
    (IsCall("decode_quantum_solution") /\ call.config.bit_resolution = 1) =>
        \A p \in DOMAIN ret.allocations : \A a \in DOMAIN ret.allocations[p] :
            IF BitIsOne(call.bitstring, a, p, call.config, call.num_periods)
            THEN FracEq(ret.allocations[p][a], InvestCap(call.config))
            ELSE ret.allocations[p][a].num = 0

\* One bit per asset, a short bitstring: one asset at the cap, one at 0
\* because its bit is '0', one at 0 because its bit is past the end.
C5_Witness ==
    /\ IsCall("decode_quantum_solution")
    /\ call.config.bit_resolution = 1
    /\ \E p, q, r \in DOMAIN ret.allocations : \E a \in DOMAIN ret.allocations[p], b \in DOMAIN ret.allocations[q], c \in DOMAIN ret.allocations[r] :
         /\ FracEq(ret.allocations[p][a], InvestCap(call.config))
         /\ ret.allocations[q][b].num = 0
         /\ GetQubitIndex(b, q, 0, call.config, call.num_periods) < Len(call.bitstring)
         /\ ret.allocations[r][c].num = 0
         /\ GetQubitIndex(c, r, 0, call.config, call.num_periods) >= Len(call.bitstring)

\* No linear entry and no upper-triangular quadratic entry is above 1e-10.
NothingAboveCutoff(linear, quadratic, num_qubits) ==
    /\ \A i \in Qubits(num_qubits) : Abs(linear[i]) <= HamThreshold
    /\ \A pr \in UpperPairs(num_qubits) : Abs(quadratic[pr[1]][pr[2]]) <= HamThreshold

IdentityOnly(num_qubits) ==
    <<[label |-> [k \in 1..num_qubits |-> "I"], coeff |-> 0]>>

\* C3: the compiled Hamiltonian is never an empty term list, and when no
\* linear and no upper-triangular quadratic entry exceeds 1e-10 it is exactly
\* one all-identity term with coefficient 0.
C3_HamiltonianNonEmpty ==
    IsCall("build_hamiltonian_from_qubo") =>
        /\ Len(ret.pauli_terms) >= 1
        /\ NothingAboveCutoff(call.linear, call.quadratic, call.num_qubits)
             => ret.pauli_terms = IdentityOnly(call.num_qubits)

\* Inputs that are not all zero (entries at the cut-off, and entries above it
\* on the diagonal and below) compiled to the single identity term.
C3_Witness ==
    /\ IsCall("build_hamiltonian_from_qubo")
    /\ call.num_qubits = 2
    /\ call.linear[0] = 1 /\ call.linear[1] = -1
    /\ call.quadratic[0][1] = -1
    /\ call.quadratic[1][0] = 3
    /\ ret.pauli_terms = IdentityOnly(2)

\* The product of the eigenvalues at a term's Z positions is -1 exactly when
\* an odd number of those positions measured '1'.
ParitySign(label, bitstring) ==
    IF Cardinality({k \in 1..Len(label) : label[k] = "Z" /\ bitstring[k] = "1"}) % 2 = 0
    THEN 1 ELSE -1

RECURSIVE ParityEnergy(_, _)
ParityEnergy(hamiltonian, bitstring) ==
    IF hamiltonian = <<>> THEN 0
    ELSE Head(hamiltonian).coeff * ParitySign(Head(hamiltonian).label, bitstring)
           + ParityEnergy(Tail(hamiltonian), bitstring)

\* Sum over the bitstrings of term(b), in the order of their binary value.
RECURSIVE ShotsTimesEnergy(_, _, _)
ShotsTimesEnergy(counts, hamiltonian, todo) ==
    IF todo = {} THEN 0
    ELSE LET b == CHOOSE x \in todo : \A y \in todo : BitValueFrom(x, 1, Len(x) + 1)
                                                       >= BitValueFrom(y, 1, Len(y) + 1)
         IN  ShotsTimesEnergy(counts, hamiltonian, todo \ {b})
               + counts[b] * ParityEnergy(hamiltonian, b)

RECURSIVE Shots(_, _)
Shots(counts, todo) ==
    IF todo = {} THEN 0
    ELSE LET b == CHOOSE x \in todo : TRUE IN counts[b] + Shots(counts, todo \ {b})

SingleZ(hamiltonian) ==
    Len(hamiltonian) = 1 /\ hamiltonian[1].label = <<"Z">>

\* C9: the expectation is the count-weighted average of the bitstring
\* energies (coefficient times the product of +1/-1 eigenvalues at the Z
\* positions); for one Z term of coefficient c on one qubit, counts all on
\* "0" give c and counts all on "1" give -c, whatever the number of shots.
C9_ExpectationWeightedAverage ==
    (IsCall("compute_expectation_from_counts") /\ DOMAIN call.counts # {}) =>
        /\ ret.expectation.den > 0
        /\ ret.expectation.num * Shots(call.counts, DOMAIN call.counts)
             = ret.expectation.den * ShotsTimesEnergy(call.counts, call.hamiltonian, DOMAIN call.counts)
        /\ (SingleZ(call.hamiltonian) /\ DOMAIN call.counts = {<<"0">>})
             => FracEq(ret.expectation, Frac(call.hamiltonian[1].coeff, 1))
        /\ (SingleZ(call.hamiltonian) /\ DOMAIN call.counts = {<<"1">>})
             => FracEq(ret.expectation, Frac(0 - call.hamiltonian[1].coeff, 1))

\* One Z term of coefficient 3 on one qubit, 100 shots all measuring "1":
\* the expectation is -3.
C9_Witness ==
    /\ IsCall("compute_expectation_from_counts")
    /\ SingleZ(call.hamiltonian)
    /\ call.hamiltonian[1].coeff = 3
    /\ DOMAIN call.counts = {<<"1">>}
    /\ call.counts[<<"1">>] = 100
    /\ FracEq(ret.expectation, Frac(-3, 1))

\* C2: the quadratic matrix returned by build_dynamic_qubo is symmetric, for
\* every configuration, symmetric covariance estimates, with or without a
\* previous_allocation.
C2_QuboSymmetric ==
    (IsCall("build_dynamic_qubo") /\ ret.raised = None) =>
        \A x, y \in Qubits(ret.total_qubits) : ret.quadratic[x][y] = ret.quadratic[y][x]

\* A matrix built with a previous_allocation, several assets and several
\* bits, holding different nonzero entries off the diagonal.
C2_Witness ==
    /\ IsCall("build_dynamic_qubo")
    /\ ret.raised = None
    /\ ~call.previous_allocation.is_none
    /\ NumAssets(call.periods_data) >= 2
    /\ call.config.bit_resolution >= 2
    /\ \E x, y, z \in Qubits(ret.total_qubits) :
         /\ x # y /\ x # z
         /\ ret.quadratic[x][y] # 0 /\ ret.quadratic[x][z] # 0
         /\ ret.quadratic[x][y] # ret.quadratic[x][z]

\* The same build without a previous_allocation.
WithoutPrevious == build_dynamic_qubo(call.periods_data, call.config, NoAllocation)

\* A build with a supplied previous_allocation, a positive fee and at least
\* two periods, that returned.
TransactionCase ==
    /\ IsCall("build_dynamic_qubo")
    /\ ~call.previous_allocation.is_none
    /\ call.config.transaction_fee > 0
    /\ NumPeriods(call.periods_data) >= 2
    /\ ret.raised = None

\* The qubits of periods >= 1.
LaterQubits ==
    {GetQubitIndex(t[1], t[2], t[3], call.config, NumPeriods(call.periods_data)) :
       t \in {u \in ValidTriples(NumAssets(call.periods_data),
                                 NumPeriods(call.periods_data), call.config) : u[2] >= 1}}

ExpectedShift(t) ==
    IF t[2] >= 1 /\ t[1] < Len(call.previous_allocation.values)
    THEN call.config.transaction_fee * call.previous_allocation.values[t[1] + 1]
           * QuboDen(call.config)
    ELSE 0

EvaluationCap(G, P) == IF G * P * 3 > 20 THEN G * P * 3 ELSE 20
RunCap == EvaluationCap(run.config.num_generations, run.config.population_size)
\* The step is a cost-function invocation made after the cap was reached.
InvocationPastCap == job_count' = job_count + 1 /\ job_count' > RunCap

\* C6 as stated: a run never makes more than max(20, G*P*3) sampling calls,
\* and every invocation past the cap returns 1e6 without sampling.  The
\* final sampling pass is not governed by the cap, so a run whose
\* evaluations used the whole cap makes one call more.
C6_NeverMoreThanCap ==
    [][/\ sampling_calls' <= RunCap'
       /\ InvocationPastCap => (last_cost' = Sentinel /\ sampling_calls' = sampling_calls)]_vars

\* C6, amended: the cost-function evaluations of a run make at most
\* max(20, G*P*3) sampling calls, the run as a whole at most one more (the
\* final sampling pass), and every cost-function invocation past the cap
\* returns the 1e6 sentinel without calling the sampler.
C6_SamplingCap ==
    [][/\ pc' \in {"de", "polish", "final"} => sampling_calls' <= RunCap'
       /\ sampling_calls' <= RunCap' + 1
       /\ InvocationPastCap => (last_cost' = Sentinel /\ sampling_calls' = sampling_calls)]_vars

\* A run with G = MaxGenerations whose evaluations went past the cap, each
\* of the first RunCap sampling, and whose final pass succeeded.
C6_Witness ==
    /\ pc = "returned"
    /\ ~run.config.test_mode
    /\ run.config.num_generations = MaxGenerations
    /\ job_count > RunCap
    /\ sampling_calls = RunCap + 1

AllowedChange(from, to) ==
    \/ from = "pending" /\ to \in {"running", "cancelled"}
    \/ from = "running" /\ to \in {"completed", "failed", "cancelled"}

\* The record under job id j is still the record of the same submission.
SameJob(j) ==
    /\ j \in DOMAIN active_jobs'
    /\ active_jobs'[j].created_at = active_jobs[j].created_at

\* C10: every status change of a job follows pending -> running ->
\* {completed | failed | cancelled}, with cancelled also reachable from
\* pending, and a job in completed, failed or cancelled never changes status
\* again.  A cancel request only rewrites the record: the execution of
\* run_optimization_sync goes on and later writes running, completed or
\* failed over cancelled.
C10_StatusTransitions ==
    [][\A j \in DOMAIN active_jobs :
         (SameJob(j) /\ active_jobs'[j].status # active_jobs[j].status)
         => AllowedChange(active_jobs[j].status, active_jobs'[j].status)]_vars

\* ------------------------------------------------------------------ C11
\* The step is the end of an evaluation whose try block raised: before the
\* job was out (binding, transpilation) or after (submission, result,
\* counts, expectation).
FailedEvaluation ==
    \/ job_count' = job_count + 1 /\ last_outcome' = "raises_before_run"
    \/ last_outcome = "in_flight" /\ last_outcome' = "raises_in_run"

Searching == pc \in {"de", "polish"}

\* C11: an evaluation whose try block raises returns the 1e6 sentinel; no
\* step of the search ends the run with an exception; and an evaluation
\* whose job gives counts returns their expectation, whatever happened in
\* the evaluations before it.
C11_FailuresBecomeSentinel ==
    [][/\ FailedEvaluation => (last_cost' = Sentinel /\ pc' = pc)
       /\ Searching => (pc' \in {"de", "polish", "final"} /\ result' = result)
       /\ (last_outcome = "in_flight" /\ last_outcome' = "ok")
            => last_cost' \in ExpectationValues]_vars

\* An evaluation has just returned an expectation, before the timeout and
\* within the cap, in a search where an earlier evaluation raised before its
\* job was out (fewer sampling calls than invocations).
C11_Witness ==
    /\ pc = "de"
    /\ ~timed_out
    /\ job_count <= RunCap
    /\ sampling_calls < job_count
    /\ last_outcome = "ok"
    /\ last_cost \in ExpectationValues
    /\ best_cost # Sentinel

\* ------------------------------------------------------------------ C12
\* The final sampling pass of the run raised.
FinalPassFailed ==
    /\ pc \in {"returned", "raised"}
    /\ last_outcome \in {"raises_before_run", "raises_in_run"}

\* C12: when the final sampling pass raises, the run ends with that
\* exception: dynamic_quantum_optimize returns no result, hence no
\* allocations and no sentinel objective.
C12_FinalFailurePropagates ==
    FinalPassFailed
    => /\ pc = "raised"
       /\ DOMAIN result = {"raised"}
       /\ result.raised = "SamplingError"

\* A search that evaluated candidates, then a final job that raised.
C12_Witness ==
    /\ pc = "raised"
    /\ last_outcome = "raises_in_run"
    /\ job_count >= 1
    /\ best_cost \in ExpectationValues
    /\ result = [raised |-> "SamplingError"]

\* ------------------------------------------------------------------ C13
\* The caller named a backend that is not among the discovered ones.
NamedButNotDiscovered ==
    /\ selecting.quantum_backend # None
    /\ selecting.quantum_backend \notin selecting.discovered

\* C13: a run whose named backend is not discovered falls back to
\* auto-selection and does not fail for it, whatever was discovered.  When
\* auto-selection finds no backend either, backend_name is None, so is its
\* info, and reading its name raises AttributeError.
C13_FallbackNeverFails ==
    (pc = "raised" /\ NamedButNotDiscovered) => result.raised # "AttributeError"

\* ------------------------------------------------------------------ C14
\* C14: a run whose price history gives no valid period window ends with
\* ValueError right after prepare_multi_period_data: no QUBO, no
\* Hamiltonian, no ansatz, no backend, no evaluation and no sampling call,
\* with test_mode set or not.
C14_InsufficientDataFailsFirst ==
    (pc # "idle" /\ run.num_periods = 0)
    => /\ pc = "raised"
       /\ result = [raised |-> "ValueError"]
       /\ run.stages = <<"prepare_multi_period_data">>
       /\ selecting = NoRequest
       /\ job_count = 0
       /\ sampling_calls = 0

\* A test-mode run over a history with no valid window has ended.
C14_Witness ==
    /\ pc = "raised"
    /\ run.config.test_mode
    /\ run.num_periods = 0
    /\ result = [raised |-> "ValueError"]

\* ------------------------------------------------------------------ C15
\* The step is a cost-function invocation made after the timeout passed.
InvocationPastTimeout == job_count' = job_count + 1 /\ timed_out
\* The step is the return of a job that was out when the timeout passed.
LateJobReturn == timed_out /\ last_outcome = "in_flight" /\ last_outcome' # "in_flight"

\* C15: once the timeout has passed it stays passed, and every invocation
\* from then on returns 1e6 without binding or sampling; the passing of the
\* timeout changes nothing about a job that is out, and that job's
\* invocation returns what the job gives.
C15_TimeoutAtInvocationStart ==
    [][/\ timed_out => timed_out'
       /\ InvocationPastTimeout
            => (last_cost' = Sentinel /\ last_outcome' = "skipped"
                /\ sampling_calls' = sampling_calls)
       /\ (~timed_out /\ timed_out')
            => UNCHANGED <<pc, job_count, sampling_calls, last_cost, last_outcome, best_cost>>
       /\ LateJobReturn
            => /\ last_outcome' \in {"ok", "raises_in_run"}
               /\ last_outcome' = "ok" => last_cost' \in ExpectationValues]_vars

\* Within the cap, every invocation but the latest sampled, and the latest
\* was skipped: the timeout stopped it.
C15_Witness ==
    /\ pc = "de"
    /\ timed_out
    /\ job_count >= 2
    /\ job_count <= RunCap
    /\ sampling_calls = job_count - 1
    /\ last_outcome = "skipped"
    /\ last_cost = Sentinel

\* ------------------------------------------------------------------ C16
\* How far a run is from its end: the stage, then the invocations the
\* optimizer still can make, then the job that is out and the timeout that
\* has not passed.
StageRank ==
    CASE pc = "idle" -> 5
      [] pc = "select" -> 4
      [] pc = "de" -> 3
      [] pc = "polish" -> 2
      [] pc = "final" -> 1
      [] OTHER -> 0
InvocationsLeft == max_jobs(run.config) + ExtraEvals - job_count
Pending == (IF last_outcome = "in_flight" THEN 1 ELSE 0) + (IF timed_out THEN 0 ELSE 1)

RunAdvances ==
    \/ StageRank' < StageRank
    \/ StageRank' = StageRank /\ InvocationsLeft' < InvocationsLeft
    \/ StageRank' = StageRank /\ InvocationsLeft' = InvocationsLeft /\ Pending' < Pending

\* C16: a run under way always has a next step and every step brings it
\* nearer its end, so it terminates; once the optimizer is at work only a
\* failing final pass ends the run with an exception; and a run whose final
\* pass succeeds, governed or not, returns the allocations decoded from the
\* most probable bitstring of the final counts, with the optimizer's best
\* cost as objective_value.
C16_GovernedRunCompletes ==
    /\ [](pc \in {"select", "de", "polish", "final"} => ENABLED <<NextRun>>_vars)
    /\ [][/\ RunAdvances
          /\ (pc \in {"de", "polish", "final"} /\ pc' = "raised")
               => (pc = "final" /\ last_outcome' \in {"raises_before_run", "raises_in_run"})
          /\ (pc = "final" /\ last_outcome' = "ok")
               => /\ pc' = "returned"
                  /\ result'.solution_bitstring = MostProbable(result'.measurement_counts)
                  /\ result'.allocations =
                       decode_quantum_solution(result'.solution_bitstring, run.config,
                                               run.num_assets, run.num_periods)
                  /\ result'.objective_value = best_cost]_vars

\* A run on which both governors acted has returned its result.
C16_Witness ==
    /\ pc = "returned"
    /\ ~run.config.test_mode
    /\ timed_out
    /\ job_count > RunCap
    /\ last_outcome = "ok"
    /\ "allocations" \in DOMAIN result

\* ------------------------------------------------------------------ C17
ResultKeys == {"allocations", "objective_value", "quantum_jobs_executed", "solution_bitstring", "measurement_counts"}

\* C17: the result of a run on the real path holds allocations,
\* objective_value, quantum_jobs_executed, solution_bitstring and
\* measurement_counts, and quantum_jobs_executed is the number of jobs the
\* run handed to the sampler, the final sampling pass counted or not.
C17_JobsExecutedCounted ==
    (pc = "returned" /\ ~run.config.test_mode)
        => /\ ResultKeys \subseteq DOMAIN result
           /\ result.quantum_jobs_executed \in {sampling_calls, sampling_calls - 1}

\* ------------------------------------------------------------------ C18
\* C18: whichever path returned the result, every allocation in it lies in
\* [0, max_investment_per_asset].
C18_AllocationsWithinCap ==
    pc = "returned"
        => \A t \in DOMAIN result.allocations : \A a \in DOMAIN result.allocations[t] :
              /\ FracLeq(Frac(0, 1), result.allocations[t][a])
              /\ FracLeq(result.allocations[t][a], InvestCap(run.config))

\* ------------------------------------------------------------------ C19
\* C19: build_dynamic_qubo completes whatever the sizes of its inputs: an
\* index outside the coefficient arrays only skips its contribution, nothing
\* is raised, and the arrays returned have total_qubits entries.
C19_ConstructionAlwaysCompletes ==
    IsCall("build_dynamic_qubo")
        => /\ ret.raised = None
           /\ DOMAIN ret.linear = 0..(ret.total_qubits - 1)

\* ------------------------------------------------------------------ C20
\* C20: under any interleaving of synchronous requests and background jobs,
\* each run of quantum_optimize uses the backend of its own request: the
\* simulator when qc_simulator is set, the real backend when it is not.
C20_OwnModeUsed ==
    \A i \in DOMAIN hybrid :
        hybrid[i].at = "done"
            => hybrid[i].used = (IF hybrid[i].qc_simulator THEN "run_simulator" ELSE "run_real_backend")

\* ------------------------------------------------------------------ C21
\* The discovered backends that can hold the problem and take jobs.
Eligible == {i \in DOMAIN call.available_backends : call.available_backends[i].num_qubits >= call.num_qubits /\ call.available_backends[i].status \in {"AVAILABLE", "BUSY"}}
ScoreOf(i) == score_backend(call.available_backends[i], call.num_qubits, call.prefer_hardware)

\* C21: select_best_backend returns None exactly when no discovered backend
\* has enough qubits and status AVAILABLE or BUSY; otherwise it names one of
\* those backends whose score is the highest among them, and the bonus for
\* qubits in excess never exceeds 10.
C21_BestBackendSelected ==
    IsCall("select_best_backend")
        => /\ (ret.best_name = None) <=> (Eligible = {})
           /\ Eligible # {}
                => \E i \in Eligible :
                      /\ ret.best_name = BackendNames[i]
                      /\ \A j \in Eligible : ScoreOf(j) <= ScoreOf(i)
           /\ \A i \in DOMAIN call.available_backends :
                LET excess == call.available_backends[i].num_qubits - call.num_qubits
                IN  QubitBonus(excess) = (IF excess < 0 THEN 0 ELSE IF excess > 10 THEN 10 ELSE excess)

\* Two backends can hold the problem; the one with 17 qubits in excess and
\* a queue loses to the one with 9 in excess, and a backend in maintenance
\* is never the one named.
C21_Witness ==
    /\ IsCall("select_best_backend")
    /\ Len(call.available_backends) = 2
    /\ Eligible = {1, 2}
    /\ call.available_backends[1].num_qubits - call.num_qubits = 17
    /\ call.available_backends[2].num_qubits - call.num_qubits = 9
    /\ call.available_backends[1].status = call.available_backends[2].status
    /\ call.available_backends[1].backend_type = call.available_backends[2].backend_type
    /\ ret.best_name = BackendNames[2]

\* ------------------------------------------------------------------ C22
\* The callback is invoked and lets the search go on / requests termination.
CallbackContinues == Callback /\ pc' = "de"
CallbackTerminates == Callback /\ pc' = "polish"

\* C22: once the evaluation count has reached the cap max(20, G*P*3), a
\* callback invocation never lets the search go on: whenever the optimizer
\* invokes it, it requests termination.
C22_CallbackStopsAtCap ==
    (pc = "de" /\ job_count >= RunCap)
        => /\ callback(job_count, run.config)
           /\ ~ENABLED CallbackContinues
           /\ last_outcome # "in_flight" => ENABLED CallbackTerminates

\* A search the callback has ended with the count at the cap or beyond.
C22_Witness ==
    /\ pc = "polish"
    /\ job_count >= RunCap
    /\ run.config.num_generations * run.config.population_size * 3 > 20

\* ------------------------------------------------------------------ C23
\* The bits of (asset, period) that are '1' in the bitstring; a position
\* past its end is not.
SetBits(bitstring, asset_idx, period_idx, config, num_periods) ==
    {b \in 0..(config.bit_resolution - 1) :
        LET qubit_idx == GetQubitIndex(asset_idx, period_idx, b, config, num_periods)
        IN  qubit_idx < Len(bitstring) /\ bitstring[qubit_idx + 1] = "1"}

RECURSIVE SumOfPowers(_)
SumOfPowers(bits) ==
    IF bits = {} THEN 0
    ELSE LET b == CHOOSE x \in bits : TRUE IN (2 ^ b) + SumOfPowers(bits \ {b})

\* The positions of the bitstring that hold a '1'.
Ones(bitstring) == {k \in 1..Len(bitstring) : bitstring[k] = "1"}

\* C23: the integer decoded for (asset, period) is the sum of 2^b over its
\* set bits, bit 0 the least significant, positions past the end counting
\* as '0'; so the full-length bitstring whose only '1' is at the index of
\* (a, p, b) decodes to 2^b / (2^bit_resolution - 1) * cap for (a, p) and to
\* 0 everywhere else.
C23_DecodeMatchesEncoding ==
    IsCall("decode_quantum_solution") =>
        LET config == call.config
            total == calculate_total_qubits(call.num_assets, call.num_periods, config)
        IN  /\ \A p \in 0..(call.num_periods - 1) : \A a \in 0..(call.num_assets - 1) :
                 ret.allocations[p][a] =
                     Frac(SumOfPowers(SetBits(call.bitstring, a, p, config, call.num_periods))
                            * config.max_investment_per_asset,
                          ((2 ^ config.bit_resolution) - 1) * 100)
            /\ \A t \in ValidTriples(call.num_assets, call.num_periods, config) :
                 (/\ Len(call.bitstring) = total
                  /\ Ones(call.bitstring) = {GetQubitIndex(t[1], t[2], t[3], config, call.num_periods) + 1})
                    => \A p \in 0..(call.num_periods - 1) : \A a \in 0..(call.num_assets - 1) :
                         IF <<a, p>> = <<t[1], t[2]>>
                         THEN FracEq(ret.allocations[p][a],
                                     Frac((2 ^ t[3]) * config.max_investment_per_asset,
                                          ((2 ^ config.bit_resolution) - 1) * 100))
                         ELSE ret.allocations[p][a].num = 0

\* A full-length bitstring whose only '1' is the second bit of the second
\* asset in the second period, decoded with two bits per asset.
C23_Witness ==
    /\ IsCall("decode_quantum_solution")
    /\ call.config.bit_resolution = 2
    /\ call.num_assets = 2
    /\ call.num_periods = 2
    /\ Len(call.bitstring) = 8
    /\ Ones(call.bitstring) = {GetQubitIndex(1, 1, 1, call.config, 2) + 1}
    /\ FracEq(ret.allocations[1][1], Frac(2 * call.config.max_investment_per_asset, 300))
    /\ ret.allocations[0][1].num = 0

\* ------------------------------------------------------------------ C24
\* C24: for a history of N rows the periods returned are t = 0, 1, ... in
\* order, period t starting at row t * rebalance_frequency_days and ending
\* 2 * rebalance_frequency_days rows later or at the last row; each has
\* between rebalance_frequency_days and twice that many rows; there are
\* min(num_time_steps, N div rebalance_frequency_days) of them, and the
\* first window left out, if any, is too short.
C24_PeriodWindows ==
    IsCall("prepare_multi_period_data") =>
        LET N == call.total_days
            R == call.config.rebalance_frequency_days
            T == call.config.num_time_steps
            periods == ret.periods
            count == IF T <= N \div R THEN T ELSE N \div R
        IN  /\ Len(periods) = count
            /\ \A k \in 1..Len(periods) :
                 LET length == periods[k].end_idx - periods[k].start_idx
                 IN  /\ periods[k].start_idx = (k - 1) * R
                     /\ periods[k].end_idx <= N
                     /\ periods[k].end_idx = N \/ length = 2 * R
                     /\ R <= length
                     /\ length <= 2 * R
            /\ Len(periods) < T => N - Len(periods) * R < R

\* Five rows split every two days, four steps asked for: a full window, a
\* window cut by the end of the history, and the third one too short.
C24_Witness ==
    /\ IsCall("prepare_multi_period_data")
    /\ call.total_days = 5
    /\ call.config.rebalance_frequency_days = 2
    /\ call.config.num_time_steps = 4
    /\ ret.periods = <<[start_idx |-> 0, end_idx |-> 4], [start_idx |-> 2, end_idx |-> 5]>>

\* ------------------------------------------------------------------ C25
\* The period a qubit belongs to.
PeriodOf(idx, config, num_periods) == IndexToTriple(idx, config, num_periods)[2]

\* C25: in a QUBO that build_dynamic_qubo returns, every quadratic entry
\* whose two qubits belong to different periods is zero.
C25_NoCrossPeriodCoupling ==
    (IsCall("build_dynamic_qubo") /\ ret.raised = None) =>
        LET num_periods == NumPeriods(call.periods_data)
        IN  \A x \in Qubits(ret.total_qubits) : \A y \in Qubits(ret.total_qubits) :
                PeriodOf(x, call.config, num_periods) # PeriodOf(y, call.config, num_periods)
                    => ret.quadratic[x][y] = 0

\* A QUBO of two periods and two assets is returned, with a coupling between
\* the two assets inside each period.
C25_Witness ==
    /\ IsCall("build_dynamic_qubo")
    /\ ret.raised = None
    /\ NumPeriods(call.periods_data) = 2
    /\ NumAssets(call.periods_data) = 2
    /\ call.config.bit_resolution = 2
    /\ \A p \in 0..1 :
         ret.quadratic[GetQubitIndex(0, p, 0, call.config, 2)][GetQubitIndex(1, p, 1, call.config, 2)] # 0
    /\ ret.quadratic[GetQubitIndex(0, 0, 0, call.config, 2)][GetQubitIndex(1, 1, 1, call.config, 2)] = 0

\* ------------------------------------------------------------------ C26
\* What the claim has the transaction term add at qubit x: the fee times the
\* previous allocation of the asset, in periods 1..N-1 only.
TransactionShare(x) ==
    LET t == IndexToTriple(x, call.config, call.num_periods)
        prev == call.previous_allocation
    IN  IF prev.is_none \/ call.num_periods <= 1 THEN 0
        ELSE IF t[2] >= 1 /\ t[1] < Len(prev.values)
        THEN call.config.transaction_fee * prev.values[t[1] + 1] * QuboDen(call.config)
        ELSE 0

\* C26: add_transaction_cost_objective returns the arrays unchanged when
\* previous_allocation is None or there is one period; otherwise it returns
\* them with transaction_fee * previous_allocation[asset] added to the
\* linear coefficient of every bit of every asset of the vector in periods
\* 1..N-1, period 0 and the quadratic matrix as they were.
C26_TransactionFrame ==
    IsCall("add_transaction_cost_objective")
        => /\ ret.raised = None
           /\ ret.quadratic = call.quadratic
           /\ \A x \in DOMAIN call.linear : ret.linear[x] = call.linear[x] + TransactionShare(x)

\* ------------------------------------------------------------------ C27
\* The qubits of one period, and the binary assignments to them (the set of
\* qubits at 1).
QubitsOfPeriod(period_idx) ==
    {x \in DOMAIN ret.linear : PeriodOf(x, call.config, call.num_periods) = period_idx}
WeightOf(x) == BitWeight(IndexToTriple(x, call.config, call.num_periods)[3])

RECURSIVE WeightSum(_)
WeightSum(xs) ==
    IF xs = {} THEN 0
    ELSE LET x == CHOOSE q \in xs : TRUE IN WeightOf(x) + WeightSum(xs \ {x})

RECURSIVE LinearSum(_)
LinearSum(xs) ==
    IF xs = {} THEN 0
    ELSE LET x == CHOOSE q \in xs : TRUE IN ret.linear[x] + LinearSum(xs \ {x})

RECURSIVE QuadraticSum(_)
QuadraticSum(pairs) ==
    IF pairs = {} THEN 0
    ELSE LET pr == CHOOSE q \in pairs : TRUE
         IN  ret.quadratic[pr[1]][pr[2]] + QuadraticSum(pairs \ {pr})

\* x^T Q x + L^T x for the assignment, as a numerator over QuboDen.
PenaltyValue(xs) == QuadraticSum(xs \X xs) + LinearSum(xs)

\* restriction_coefficient * ((sum_k weight_k * x_k - 1)^2 - 1), as a
\* numerator over QuboDen: weights are BitWeight / MaxValue.
SquaredDeviation(xs) ==
    LET S == WeightSum(xs)
        M == MaxValue(call.config)
    IN  2 * call.config.restriction_coefficient * ((S - M) * (S - M) - M * M)

\* C27: from zero arrays, the coefficients add_constraint_penalties writes
\* give every assignment to the qubits of one period the value
\* restriction_coefficient * ((sum of its weights - 1)^2 - 1), so that no
\* assignment has a smaller penalty than one whose weights sum to 1.
C27_PenaltyIsSquaredDeviation ==
    IsCall("add_constraint_penalties") =>
        \A p \in 0..(call.num_periods - 1) :
            \A xs \in SUBSET QubitsOfPeriod(p) :
                /\ PenaltyValue(xs) = SquaredDeviation(xs)
                /\ WeightSum(xs) = MaxValue(call.config)
                     => \A ys \in SUBSET QubitsOfPeriod(p) : PenaltyValue(xs) <= PenaltyValue(ys)

\* ------------------------------------------------------------------ C28
\* C28: a cancel request for a job in completed, failed or cancelled is
\* answered 400 and leaves the record as it was (status, completed_at,
\* error_message and result included); a cancel request for an unknown job
\* id is answered 404 and changes no job.
C28_CancelRejected ==
    [][\A job_id \in JobIds :
         cancel_optimization_job(job_id)
           => /\ job_id \notin DOMAIN active_jobs
                   => response' = 404 /\ active_jobs' = active_jobs
              /\ (/\ job_id \in DOMAIN active_jobs
                  /\ active_jobs[job_id].status \in {"completed", "failed", "cancelled"})
                   => /\ response' = 400
                      /\ active_jobs' = active_jobs]_vars

\* Two background jobs, both cancelled, no submission left to make: the 400
\* on record answers a further cancel request for one of them.
C28_Witness ==
    /\ submissions = MaxSubmissions
    /\ Cardinality(DOMAIN active_jobs) = MaxSubmissions
    /\ \A j \in DOMAIN active_jobs :
         /\ active_jobs[j].status = "cancelled"
         /\ active_jobs[j].request.async_execution
    /\ response = 400

\* ------------------------------------------------------------------ C29
\* C29: every accepted submission gets a job id of its own: the step that
\* accepts a submission leaves every record already in active_jobs as it
\* was, and adds one record.
C29_SubmissionNeverOverwrites ==
    [][submissions' = submissions + 1
         => /\ \A j \in DOMAIN active_jobs :
                 j \in DOMAIN active_jobs' /\ active_jobs'[j] = active_jobs[j]
            /\ Cardinality(DOMAIN active_jobs') = Cardinality(DOMAIN active_jobs) + 1]_vars

\* ------------------------------------------------------------------ C30
\* C30: the callback and the cost function use the same limit: a callback
\* invocation that requests termination finds max_evaluations equal to
\* max_jobs and the evaluation count at the cap max(20, G*P*3) or beyond.
C30_GovernorsAgree ==
    [][CallbackTerminates
         => /\ max_evaluations(run.config) = max_jobs(run.config)
            /\ job_count >= RunCap]_vars

=============================================================================
